---- MODULE Spec2Model ----
(***************************************************************************)
(* MiniVSFS: the image builder (mkfs_builder.c), the file injector         *)
(* (mkfs_adder.c) and the checksum / bitmap helpers (minivsfs_utils.c)     *)
(* over the packed on-disk records of minivsfs.h.                          *)
(*                                                                         *)
(* Representation.  A 32-bit word is the tuple of its four bytes, least    *)
(* significant first (the records are packed little-endian); every other   *)
(* integer field holds its value.  A bitmap block is the set of the        *)
(* indices of its set bits, bit number = byte_idx * 8 + bit_idx.  A data   *)
(* block is a record that determines each of its BS bytes (ByteAt).        *)
(***************************************************************************)
EXTENDS Integers, Sequences, FiniteSets, TLC

(* ---------------------------- minivsfs.h ------------------------------ *)
BS == 4096
INODE_SIZE == 128
ROOT_INO == 1
DIRECT_MAX == 12
MAGIC_NUMBER == 1297503046
VERSION == 1
PROJ_ID == 7
FILE_TYPE_REGULAR == 1
FILE_TYPE_DIRECTORY == 2
MODE_FILE == 32768
MODE_DIR == 16384
MIN_SIZE_KIB == 180
MAX_SIZE_KIB == 4096
MIN_INODES == 128
MAX_INODES == 512
SUPERBLOCK_SIZE == 116
DIRENT_SIZE == 64
NAME_MAX == 57

(* ------------------------------ bounds -------------------------------- *)
\* time(NULL) returns a value in 1..MaxClock
MaxClock == 2
\* number of operations before the run of plain injections that may use
\* any input (any file, any pair of paths, a clock tick)
MaxVaried == 1
\* total_blocks of the larger of the two volumes that are built
BigBlocks == 71
\* number of plain injections that follow a varied start
MaxFollow == 3
\* number of non-zero contents of the memory that follows a superblock_t
MaxGarbage == 1
\* the injector runs of a behaviour with foreign images and failing writes
MaxIoOps == 1
\* the applications of a finalizer to a record that is left as it is
MaxRuns == 2
\* the bits of a bitmap that find_free_bit is tried on
FindWidth == 10

(* --------------------------- bytes and words --------------------------- *)
Min(S) == CHOOSE m \in S : \A o \in S : m <= o

ByteOf(v, k) == IF k >= 4 THEN 0 ELSE (v \div (256 ^ k)) % 256

\* the w bytes of the unsigned integer v, least significant first
LE(v, w) == [k \in 1..w |-> ByteOf(v, k - 1)]

Zeros(n) == [k \in 1..n |-> 0]

ZeroWord == <<0, 0, 0, 0>>

RECURSIVE XorBits(_, _, _)
XorBits(a, b, n) ==
    IF n = 0 THEN 0
    ELSE (((a % 2) + (b % 2)) % 2) + 2 * XorBits(a \div 2, b \div 2, n - 1)

Xor8Tab == [a \in 0..255 |-> [b \in 0..255 |-> XorBits(a, b, 8)]]

\* a ^ b on bytes
Xor8(a, b) == Xor8Tab[a][b]

\* a ^ b on 32-bit words
Xor32(a, b) == <<Xor8(a[1], b[1]), Xor8(a[2], b[2]), Xor8(a[3], b[3]), Xor8(a[4], b[4])>>

\* w >> 1 and w >> 8 on 32-bit words
Shr1(w) ==
    << (w[1] \div 2) + 128 * (w[2] % 2), (w[2] \div 2) + 128 * (w[3] % 2),
       (w[3] \div 2) + 128 * (w[4] % 2), w[4] \div 2 >>

Shr8(w) == <<w[2], w[3], w[4], 0>>

(* --------------------------- minivsfs_utils.c -------------------------- *)
\* 0xEDB88320
CRC_POLY == <<32, 131, 184, 237>>

RECURSIVE crc32_init_bit(_, _)
crc32_init_bit(c, j) ==
    IF j = 0 THEN c
    ELSE crc32_init_bit(IF c[1] % 2 = 1 THEN Xor32(CRC_POLY, Shr1(c)) ELSE Shr1(c), j - 1)

CRC32_TAB == [i \in 0..255 |-> crc32_init_bit(<<i, 0, 0, 0>>, 8)]

\* one iteration of the loop of crc32: c = CRC32_TAB[(c ^ p[i]) & 0xFF] ^ (c >> 8)
crc32_step(c, b) == Xor32(CRC32_TAB[Xor8(c[1], b)], Shr8(c))

\* the loop of crc32 over p[lo..hi] (1-based), split in halves to bound the
\* depth of the evaluation
RECURSIVE crc32_loop(_, _, _, _)
crc32_loop(c, p, lo, hi) ==
    IF lo > hi THEN c
    ELSE IF lo = hi THEN crc32_step(c, p[lo])
    ELSE LET mid == (lo + hi) \div 2
             left == crc32_loop(c, p, lo, mid)
         IN  IF left[1] >= 0 THEN crc32_loop(left, p, mid + 1, hi) ELSE left

crc32(data, n) == Xor32(crc32_loop(<<255, 255, 255, 255>>, data, 1, n), <<255, 255, 255, 255>>)

(* ------------------------- the packed records -------------------------- *)
\* superblock_t, 116 bytes
SuperblockBytes(sb) ==
    LE(sb.magic, 4) \o LE(sb.version, 4) \o LE(sb.block_size, 4)
    \o LE(sb.total_blocks, 8) \o LE(sb.inode_count, 8)
    \o LE(sb.inode_bitmap_start, 8) \o LE(sb.inode_bitmap_blocks, 8)
    \o LE(sb.data_bitmap_start, 8) \o LE(sb.data_bitmap_blocks, 8)
    \o LE(sb.inode_table_start, 8) \o LE(sb.inode_table_blocks, 8)
    \o LE(sb.data_region_start, 8) \o LE(sb.data_region_blocks, 8)
    \o LE(sb.root_inode, 8) \o LE(sb.mtime_epoch, 8) \o LE(sb.flags, 4)
    \o sb.checksum

RECURSIVE DirectBytes(_, _)
DirectBytes(direct, i) ==
    IF i > DIRECT_MAX THEN <<>> ELSE LE(direct[i], 4) \o DirectBytes(direct, i + 1)

\* inode_t, 128 bytes
InodeBytes(ino) ==
    LE(ino.mode, 2) \o LE(ino.links, 2) \o LE(ino.uid, 4) \o LE(ino.gid, 4)
    \o LE(ino.size_bytes, 8) \o LE(ino.atime, 8) \o LE(ino.mtime, 8) \o LE(ino.ctime, 8)
    \o DirectBytes(ino.direct, 1)
    \o LE(ino.reserved_0, 4) \o LE(ino.reserved_1, 4) \o LE(ino.reserved_2, 4)
    \o LE(ino.proj_id, 4) \o LE(ino.uid16_gid16, 4) \o LE(ino.xattr_ptr, 8)
    \o ino.inode_crc

\* memset(&inode, 0, sizeof(inode_t))
ZeroInode ==
    [mode |-> 0, links |-> 0, uid |-> 0, gid |-> 0, size_bytes |-> 0,
     atime |-> 0, mtime |-> 0, ctime |-> 0, direct |-> Zeros(DIRECT_MAX),
     reserved_0 |-> 0, reserved_1 |-> 0, reserved_2 |-> 0, proj_id |-> 0,
     uid16_gid16 |-> 0, xattr_ptr |-> 0, inode_crc |-> Zeros(8)]

\* dirent64_t, 64 bytes; name holds the characters before the first NUL of
\* the 58-byte field, the rest of the field is zero
DirentBytes(de) ==
    LE(de.inode_no, 4) \o <<de.type>> \o de.name \o Zeros(58 - Len(de.name))
    \o <<de.checksum>>

\* memset(&dirent, 0, sizeof(dirent64_t))
ZeroDirent == [inode_no |-> 0, type |-> 0, name |-> <<>>, checksum |-> 0]

\* the unsigned value of the w little-endian bytes after offset off; a value
\* of 2^31 or more is stood for by the largest integer of the model
LEValue(bytes, off, w) ==
    LET b(k) == IF k <= w THEN bytes[off + k] ELSE 0
    IN  IF b(4) >= 128 \/ \E k \in 5..w : bytes[off + k] # 0 THEN 2147483647
        ELSE b(1) + (256 * b(2)) + (65536 * b(3)) + (16777216 * b(4))

\* memset(block_buffer, 0, BS); memcpy(block_buffer, &superblock, sizeof(superblock_t))
SuperblockBlock(sb) == SuperblockBytes(sb) \o Zeros(BS - SUPERBLOCK_SIZE)

\* fread(&sb, sizeof(superblock_t), 1, f) at the start of the image
ReadSuperblock(block) ==
    [magic |-> LEValue(block, 0, 4), version |-> LEValue(block, 4, 4),
     block_size |-> LEValue(block, 8, 4),
     total_blocks |-> LEValue(block, 12, 8), inode_count |-> LEValue(block, 20, 8),
     inode_bitmap_start |-> LEValue(block, 28, 8),
     inode_bitmap_blocks |-> LEValue(block, 36, 8),
     data_bitmap_start |-> LEValue(block, 44, 8),
     data_bitmap_blocks |-> LEValue(block, 52, 8),
     inode_table_start |-> LEValue(block, 60, 8),
     inode_table_blocks |-> LEValue(block, 68, 8),
     data_region_start |-> LEValue(block, 76, 8),
     data_region_blocks |-> LEValue(block, 84, 8),
     root_inode |-> LEValue(block, 92, 8), mtime_epoch |-> LEValue(block, 100, 8),
     flags |-> LEValue(block, 108, 4), checksum |-> SubSeq(block, 113, 116)]

(* ------------------- the inputs of the bounded runs -------------------- *)
Paths == {"a", "b"}

Chars(n, c) == [i \in 1..n |-> c]

\* the source files of the host: path, length in bytes, seed of the bytes
FileTab ==
    [filler   |-> [path |-> <<102>>, size |-> 1, seed |-> 1],
     hello    |-> [path |-> <<104, 101, 108, 108, 111, 46, 116, 120, 116>>, size |-> 10, seed |-> 2],
     b4095    |-> [path |-> Chars(NAME_MAX, 97), size |-> BS - 1, seed |-> 3],
     b4096    |-> [path |-> <<100, 47, 120>>, size |-> BS, seed |-> 4],
     b4097    |-> [path |-> Chars(NAME_MAX + 1, 100) \o <<47, 121>>, size |-> BS + 1, seed |-> 5],
     full     |-> [path |-> <<109>>, size |-> DIRECT_MAX * BS, seed |-> 6],
     empty    |-> [path |-> <<101>>, size |-> 0, seed |-> 7],
     toobig   |-> [path |-> <<116>>, size |-> DIRECT_MAX * BS + 1, seed |-> 8],
     longname |-> [path |-> <<100, 47>> \o Chars(NAME_MAX + 1, 98), size |-> 1, seed |-> 9]]

Files == DOMAIN FileTab

\* the arguments the builder is run with
BuildArgs ==
    {[size_kib |-> MIN_SIZE_KIB, inode_count |-> MIN_INODES],
     [size_kib |-> 4 * BigBlocks, inode_count |-> MIN_INODES],
     [size_kib |-> MIN_SIZE_KIB - 1, inode_count |-> MIN_INODES],
     [size_kib |-> MIN_SIZE_KIB, inode_count |-> MAX_INODES + 1],
     [size_kib |-> 4 * BigBlocks, inode_count |-> MIN_INODES \div 4]}

\* the arguments the builder is run with on its own:
\* sizes and inode counts at and around the limits the builder accepts
ProbeArgs ==
    {[size_kib |-> k, inode_count |-> n] :
        k \in {MIN_SIZE_KIB - 4, MIN_SIZE_KIB, MIN_SIZE_KIB + 2, MIN_SIZE_KIB + 4,
               MAX_SIZE_KIB - 4, MAX_SIZE_KIB, MAX_SIZE_KIB + 4},
        n \in {MIN_INODES - 1, MIN_INODES, MIN_INODES + 1, MIN_INODES + 33,
               MAX_INODES, MAX_INODES + 1}}

(* ---------------- mkfs_builder.c: arguments and layout ----------------- *)
\* parse_cli_args without the lower limit of --inodes
parse_cli_args_builder_few(args) ==
    IF args.size_kib < MIN_SIZE_KIB \/ args.size_kib > MAX_SIZE_KIB THEN -1
    ELSE IF args.inode_count > MAX_INODES THEN -1
    ELSE IF args.size_kib % 4 # 0 THEN -1
    ELSE LET total_blocks == (args.size_kib * 1024) \div BS
             inodes_per_block == BS \div INODE_SIZE
             max_inodes == total_blocks * inodes_per_block
         IN  IF args.inode_count > max_inodes THEN -1 ELSE 0

\* args is [size_kib, inode_count]; 0 on success, -1 on a rejected argument
parse_cli_args_builder(args) ==
    IF args.size_kib < MIN_SIZE_KIB \/ args.size_kib > MAX_SIZE_KIB THEN -1
    ELSE IF args.inode_count < MIN_INODES \/ args.inode_count > MAX_INODES THEN -1
    ELSE IF args.size_kib % 4 # 0 THEN -1
    ELSE LET total_blocks == (args.size_kib * 1024) \div BS
             inodes_per_block == BS \div INODE_SIZE
             max_inodes == total_blocks * inodes_per_block
         IN  IF args.inode_count > max_inodes THEN -1 ELSE 0

\* a - b in uint64_t, for operands below 2^31: a wrapped difference is a
\* huge positive number, stood for by the largest integer of the model
U64_HUGE == 2147483647
U64Sub(a, b) == IF a >= b THEN a - b ELSE U64_HUGE

\* calculate_layout with the inode table rounded down to whole blocks
calculate_layout_floor(args) ==
    LET total_blocks == (args.size_kib * 1024) \div BS
        inodes_per_block == BS \div INODE_SIZE
        inode_table_blocks == args.inode_count \div inodes_per_block
        data_region_start == 3 + inode_table_blocks
        data_region_blocks == U64Sub(total_blocks, data_region_start)
        layout == [total_blocks |-> total_blocks,
                   inode_table_blocks |-> inode_table_blocks,
                   data_region_blocks |-> data_region_blocks,
                   superblock_start |-> 0,
                   inode_bitmap_start |-> 1,
                   data_bitmap_start |-> 2,
                   inode_table_start |-> 3,
                   data_region_start |-> data_region_start]
    IN  IF data_region_blocks <= 0 THEN [rc |-> -1, layout |-> layout]
        ELSE [rc |-> 0, layout |-> layout]

calculate_layout(args) ==
    LET total_blocks == (args.size_kib * 1024) \div BS
        inodes_per_block == BS \div INODE_SIZE
        inode_table_blocks == (args.inode_count + inodes_per_block - 1) \div inodes_per_block
        data_region_start == 3 + inode_table_blocks
        data_region_blocks == U64Sub(total_blocks, data_region_start)
        layout == [total_blocks |-> total_blocks,
                   inode_table_blocks |-> inode_table_blocks,
                   data_region_blocks |-> data_region_blocks,
                   superblock_start |-> 0,
                   inode_bitmap_start |-> 1,
                   data_bitmap_start |-> 2,
                   inode_table_start |-> 3,
                   data_region_start |-> data_region_start]
    IN  IF data_region_blocks <= 0 THEN [rc |-> -1, layout |-> layout]
        ELSE IF data_region_blocks < 1 THEN [rc |-> -1, layout |-> layout]
        ELSE [rc |-> 0, layout |-> layout]

\* superblock_fields with the length of the volume taken for that of the
\* data region
superblock_fields_whole(args, layout, now) ==
    [magic |-> MAGIC_NUMBER, version |-> VERSION, block_size |-> BS,
     total_blocks |-> layout.total_blocks, inode_count |-> args.inode_count,
     inode_bitmap_start |-> layout.inode_bitmap_start, inode_bitmap_blocks |-> 1,
     data_bitmap_start |-> layout.data_bitmap_start, data_bitmap_blocks |-> 1,
     inode_table_start |-> layout.inode_table_start,
     inode_table_blocks |-> layout.inode_table_blocks,
     data_region_start |-> layout.data_region_start,
     data_region_blocks |-> layout.total_blocks,
     root_inode |-> ROOT_INO, mtime_epoch |-> now, flags |-> 0,
     checksum |-> ZeroWord]

\* the fields create_superblock sets, the checksum not yet finalized
superblock_fields(args, layout, now) ==
    [magic |-> MAGIC_NUMBER, version |-> VERSION, block_size |-> BS,
     total_blocks |-> layout.total_blocks, inode_count |-> args.inode_count,
     inode_bitmap_start |-> layout.inode_bitmap_start, inode_bitmap_blocks |-> 1,
     data_bitmap_start |-> layout.data_bitmap_start, data_bitmap_blocks |-> 1,
     inode_table_start |-> layout.inode_table_start,
     inode_table_blocks |-> layout.inode_table_blocks,
     data_region_start |-> layout.data_region_start,
     data_region_blocks |-> layout.data_region_blocks,
     root_inode |-> ROOT_INO, mtime_epoch |-> now, flags |-> 0,
     checksum |-> ZeroWord]

\* the fields create_root_inode sets, the checksum not yet finalized
root_inode_fields(first_data_block, now) ==
    [ZeroInode EXCEPT !.mode = MODE_DIR, !.links = 2,
                      !.size_bytes = 2 * DIRENT_SIZE,
                      !.atime = now, !.mtime = now, !.ctime = now,
                      !.direct = [i \in 1..DIRECT_MAX |-> IF i = 1 THEN first_data_block ELSE 0],
                      !.proj_id = PROJ_ID]

\* blocks_needed_for with one block more than the whole blocks of the file
blocks_needed_for_plus(file_size) == (file_size \div BS) + 1

blocks_needed_for(file_size) == (file_size + BS - 1) \div BS

\* the fields the adder sets in the new inode, the checksum not yet finalized
file_inode_fields(file_size, now, blocks_needed, data_blocks) ==
    [ZeroInode EXCEPT !.mode = MODE_FILE, !.links = 1, !.size_bytes = file_size,
                      !.atime = now, !.mtime = now, !.ctime = now,
                      !.direct = [i \in 1..DIRECT_MAX |->
                                    IF i <= blocks_needed THEN data_blocks[i] ELSE 0],
                      !.proj_id = PROJ_ID]

(* ------------------- checksum finalizers (utils.c) --------------------- *)
\* the bytes that crc32(sb, BS - 4) reads past the 116 bytes of the
\* superblock_t it is given: whatever the memory after the object holds
MemoryAfter(g) ==
    [k \in 1..(BS - 4 - SUPERBLOCK_SIZE) |-> IF k <= 8 THEN g * k ELSE 0]

\* The superblocks and inodes that the bounded inputs produce most often,
\* and the table of their checksums: superblock_checksum and inode_checksum
\* look a record up before they run crc32 over its bytes, so that the CRC of
\* one record is computed once.
ValidBuildArgs == {a \in BuildArgs \cup ProbeArgs : parse_cli_args_builder(a) = 0}

KnownSuperblocks ==
    {superblock_fields(a, calculate_layout(a).layout, t) : a \in ValidBuildArgs, t \in 1..MaxClock}
    \cup {[superblock_fields(a, calculate_layout(a).layout, t) EXCEPT !.version = VERSION + 1] :
            a \in {b \in BuildArgs : parse_cli_args_builder(b) = 0}, t \in 1..MaxClock}

SuperblockChecksums ==
    [z \in KnownSuperblocks |->
       [g \in 0..MaxGarbage |-> crc32(SuperblockBytes(z) \o MemoryAfter(g), BS - 4)]]

KnownStarts ==
    {calculate_layout(a).layout.data_region_start :
        a \in {b \in BuildArgs : parse_cli_args_builder(b) = 0}}

KnownInodes ==
    {[root_inode_fields(d, t0) EXCEPT !.links = k + e, !.size_bytes = DIRENT_SIZE * k, !.mtime = t] :
        d \in KnownStarts, t0 \in 1..MaxClock, t \in 1..MaxClock,
        k \in 2..(BS \div DIRENT_SIZE), e \in 0..1}
    \cup
    {file_inode_fields(FileTab[f].size, t, blocks_needed_for(FileTab[f].size),
                       [i \in 1..DIRECT_MAX |-> first + i - 1]) :
        f \in {h \in Files : FileTab[h].size > 0 /\ FileTab[h].size <= DIRECT_MAX * BS},
        t \in 1..MaxClock, first \in 1..BigBlocks}

InodeChecksums ==
    [z \in KnownInodes |-> crc32(SubSeq(InodeBytes(z), 1, 120) \o Zeros(8), 120)]

\* superblock_checksum over the record as it is, the old checksum included
superblock_checksum_kept(sb, g) == crc32(SuperblockBytes(sb) \o MemoryAfter(g), BS - 4)

\* sb->checksum = 0; s = crc32(sb, BS - 4)
superblock_checksum(sb, g) ==
    LET z == [sb EXCEPT !.checksum = ZeroWord]
    IN  IF z \in KnownSuperblocks /\ g \in 0..MaxGarbage
        THEN SuperblockChecksums[z][g]
        ELSE crc32(SuperblockBytes(z) \o MemoryAfter(g), BS - 4)

superblock_crc_finalize(sb, g) == [sb EXCEPT !.checksum = superblock_checksum(sb, g)]

\* memcpy(tmp, ino, INODE_SIZE); memset(&tmp[120], 0, 8); c = crc32(tmp, 120)
inode_checksum(ino) ==
    LET z == [ino EXCEPT !.inode_crc = Zeros(8)]
    IN  IF z \in KnownInodes
        THEN InodeChecksums[z]
        ELSE crc32(SubSeq(InodeBytes(z), 1, 120) \o Zeros(8), 120)

inode_crc_finalize(ino) == [ino EXCEPT !.inode_crc = inode_checksum(ino) \o ZeroWord]

RECURSIVE XorFold(_, _, _)
XorFold(p, lo, hi) ==
    IF lo > hi THEN 0
    ELSE IF lo = hi THEN p[lo]
    ELSE LET mid == (lo + hi) \div 2 IN Xor8(XorFold(p, lo, mid), XorFold(p, mid + 1, hi))

dirent_checksum_finalize(de) ==
    [de EXCEPT !.checksum = XorFold(DirentBytes(de), 1, 63)]

(* ------------------------- bitmaps (utils.c) --------------------------- *)
\* bitmap[byte_idx]
BitmapByte(bitmap, byte_idx) ==
    LET b(j) == IF (byte_idx * 8 + j) \in bitmap THEN 2 ^ j ELSE 0
    IN  b(0) + b(1) + b(2) + b(3) + b(4) + b(5) + b(6) + b(7)

\* uint32_t values: v below 2^31 is the integer v, v from 2^31 on is the
\* integer v - 2^32 (the same 32 bits read as two's complement)
U32Add(a, b) ==
    IF a >= 0 /\ a > 2147483647 - b
    THEN (a - 2147483647 - 1) + (b - 2147483647 - 1)
    ELSE a + b

\* v / 8 for a uint32_t v
U32Div8(a) == IF a >= 0 THEN a \div 8 ELSE 536870912 + (a \div 8)

\* a < b for uint32_t a, b
U32Less(a, b) == IF (a < 0) = (b < 0) THEN a < b ELSE b < 0

\* the inner loop of find_free_bit from bit_idx on
RECURSIVE find_free_bit_in_byte(_, _, _, _)
find_free_bit_in_byte(bitmap, max_bits, byte_idx, bit_idx) ==
    IF bit_idx >= 8 THEN -1
    ELSE IF (BitmapByte(bitmap, byte_idx) \div (2 ^ bit_idx)) % 2 = 0
            /\ U32Less(byte_idx * 8 + bit_idx, max_bits)
         THEN byte_idx * 8 + bit_idx
         ELSE find_free_bit_in_byte(bitmap, max_bits, byte_idx, bit_idx + 1)

\* the outer loop of find_free_bit from byte_idx on
RECURSIVE find_free_bit_from(_, _, _)
find_free_bit_from(bitmap, max_bits, byte_idx) ==
    IF byte_idx >= U32Div8(U32Add(max_bits, 7)) THEN -1
    ELSE LET found == IF BitmapByte(bitmap, byte_idx) # 255
                      THEN find_free_bit_in_byte(bitmap, max_bits, byte_idx, 0)
                      ELSE -1
         IN  IF found >= 0 THEN found
             ELSE find_free_bit_from(bitmap, max_bits, byte_idx + 1)

\* find_free_bit with the search for the highest clear bit below max_bits
find_free_bit_high(bitmap, max_bits) ==
    LET free == {i \in 0..(max_bits - 1) : i \notin bitmap}
    IN  IF free = {} THEN -1 ELSE CHOOSE m \in free : \A o \in free : o <= m

find_free_bit(bitmap, max_bits) == find_free_bit_from(bitmap, max_bits, 0)

\* set_bit with the bits of a byte counted from the most significant one
set_bit_msb_first(bitmap, bit_number) ==
    bitmap \cup {((bit_number \div 8) * 8) + (7 - (bit_number % 8))}

set_bit(bitmap, bit_number) == bitmap \cup {bit_number}

\* the part of path after its last '/' (47), or path
extract_filename(path) ==
    LET slashes == {i \in 1..Len(path) : path[i] = 47}
    IN  IF slashes = {} THEN path
        ELSE SubSeq(path, (CHOOSE i \in slashes : \A j \in slashes : j <= i) + 1, Len(path))

(* ---------------------------- mkfs_builder.c --------------------------- *)
create_superblock(args, layout, now, g) ==
    superblock_crc_finalize(superblock_fields(args, layout, now), g)

create_root_inode(first_data_block, now) ==
    inode_crc_finalize(root_inode_fields(first_data_block, now))

\* create_root_directory_entries without the checksum of ".."
create_root_directory_entries_unsummed ==
    << dirent_checksum_finalize(
         [ZeroDirent EXCEPT !.inode_no = ROOT_INO, !.type = FILE_TYPE_DIRECTORY, !.name = <<46>>]),
       [ZeroDirent EXCEPT !.inode_no = ROOT_INO, !.type = FILE_TYPE_DIRECTORY, !.name = <<46, 46>>] >>

\* <<".", "..">>
create_root_directory_entries ==
    << dirent_checksum_finalize(
         [ZeroDirent EXCEPT !.inode_no = ROOT_INO, !.type = FILE_TYPE_DIRECTORY, !.name = <<46>>]),
       dirent_checksum_finalize(
         [ZeroDirent EXCEPT !.inode_no = ROOT_INO, !.type = FILE_TYPE_DIRECTORY, !.name = <<46, 46>>]) >>

\* initialize_bitmaps with the first bit taken as the top bit of byte 0
initialize_bitmaps_msb == [inode_bitmap |-> {7}, data_bitmap |-> {7}]

initialize_bitmaps == [inode_bitmap |-> {0}, data_bitmap |-> {0}]

\* a block of the data region: BS zero bytes, or BS / 64 directory entries,
\* or len bytes of the source file `seed` from offset off on, then zeros
ZeroBlock == [kind |-> "zero", entries |-> <<>>, seed |-> 0, off |-> 0, len |-> 0]
DirBlock(entries) == [kind |-> "dir", entries |-> entries, seed |-> 0, off |-> 0, len |-> 0]
DataBlock(seed, off, len) == [kind |-> "data", entries |-> <<>>, seed |-> seed, off |-> off, len |-> len]

NoFile == [kind |-> "nofile"]

\* a file that holds the first `written` of the five parts of an image (the
\* superblock, the two bitmaps, the inode table, the data region), the rest
\* of it missing or incomplete: what a run leaves when a write fails
PartialFile(written) == [kind |-> "partial", written |-> written]

\* main of mkfs_builder up to fopen: the arguments and the layout are checked
builder_status(args) ==
    IF parse_cli_args_builder(args) # 0 THEN "Validation"
    ELSE IF calculate_layout(args).rc # 0 THEN "Validation"
    ELSE "ok"

\* main of mkfs_builder from fopen on: the image it writes block by block
builder_image(args, now, g) ==
    LET layout == calculate_layout(args).layout
        bitmaps == initialize_bitmaps
        root == create_root_directory_entries
        slots == layout.inode_table_blocks * (BS \div INODE_SIZE)
    IN  [kind |-> "image",
         sb |-> create_superblock(args, layout, now, g),
         inode_bitmap |-> bitmaps.inode_bitmap,
         data_bitmap |-> bitmaps.data_bitmap,
         inode_table |->
           [k \in 0..(slots - 1) |->
              IF k = 0 THEN create_root_inode(layout.data_region_start, now)
              ELSE ZeroInode],
         data_region |->
           [b \in 0..(layout.data_region_blocks - 1) |->
              IF b = 0
              THEN DirBlock([i \in 1..(BS \div DIRENT_SIZE) |->
                               IF i <= 2 THEN root[i] ELSE ZeroDirent])
              ELSE ZeroBlock]]

(* ----------------------------- mkfs_adder.c ---------------------------- *)
\* byte p of the source file with the given seed (never zero)
FileByte(seed, p) == ((seed + p) % 255) + 1

\* byte p of a block of the data region
ByteAt(block, p) ==
    IF block.kind = "data"
    THEN IF p < block.len THEN FileByte(block.seed, block.off + p) ELSE 0
    ELSE IF block.kind = "dir"
         THEN DirentBytes(block.entries[(p \div DIRENT_SIZE) + 1])[(p % DIRENT_SIZE) + 1]
         ELSE 0

\* ((dirent64_t*)block)[i] for a block that was not written as a directory
DecodeDirent(block, i) ==
    LET b(k) == ByteAt(block, i * DIRENT_SIZE + k)
        nul == {k \in 0..57 : b(5 + k) = 0}
        n == IF nul = {} THEN 58 ELSE Min(nul)
    IN  [inode_no |-> b(0) + 256 * b(1) + 65536 * b(2) + 16777216 * b(3),
         type |-> b(4), name |-> [k \in 1..n |-> b(4 + k)], checksum |-> b(63)]

\* the BS / 64 entries of a block read as dirent64_t[]
BlockEntries(block) ==
    IF block.kind = "dir" THEN block.entries
    ELSE [i \in 1..(BS \div DIRENT_SIZE) |-> DecodeDirent(block, i - 1)]

\* parse_cli_args of the adder with the length check on the whole path
parse_cli_args_adder_whole(path) == IF Len(path) > NAME_MAX THEN -1 ELSE 0

\* parse_cli_args of the adder: the length check on the display name
parse_cli_args_adder(path) == IF Len(extract_filename(path)) > NAME_MAX THEN -1 ELSE 0

\* the allocation loop without set_bit between two searches
RECURSIVE allocate_data_blocks_unmarked(_, _, _, _)
allocate_data_blocks_unmarked(data_bitmap, sb, blocks_needed, data_blocks) ==
    IF Len(data_blocks) >= blocks_needed
    THEN [ok |-> TRUE, data_bitmap |-> data_bitmap, data_blocks |-> data_blocks]
    ELSE LET free_data_bit == find_free_bit(data_bitmap, sb.data_region_blocks)
         IN  IF free_data_bit < 0
             THEN [ok |-> FALSE, data_bitmap |-> data_bitmap, data_blocks |-> data_blocks]
             ELSE allocate_data_blocks_unmarked(data_bitmap, sb, blocks_needed,
                                                Append(data_blocks, sb.data_region_start + free_data_bit))

\* the allocation loop: data_blocks[i] = data_region_start + first free bit,
\* the bit set before the next search; ok is FALSE when a search fails
RECURSIVE allocate_data_blocks(_, _, _, _)
allocate_data_blocks(data_bitmap, sb, blocks_needed, data_blocks) ==
    IF Len(data_blocks) >= blocks_needed
    THEN [ok |-> TRUE, data_bitmap |-> data_bitmap, data_blocks |-> data_blocks]
    ELSE LET free_data_bit == find_free_bit(data_bitmap, sb.data_region_blocks)
         IN  IF free_data_bit < 0
             THEN [ok |-> FALSE, data_bitmap |-> data_bitmap, data_blocks |-> data_blocks]
             ELSE allocate_data_blocks(set_bit(data_bitmap, free_data_bit), sb, blocks_needed,
                                       Append(data_blocks, sb.data_region_start + free_data_bit))

create_file_inode(file_size, now, blocks_needed, data_blocks) ==
    inode_crc_finalize(file_inode_fields(file_size, now, blocks_needed, data_blocks))

\* link_root_inode without the increment of the link count
link_root_inode_same(root_inode, now) ==
    inode_crc_finalize([root_inode EXCEPT !.mtime = now])

\* root_inode->links++; root_inode->mtime = now; inode_crc_finalize(root_inode)
link_root_inode(root_inode, now) ==
    inode_crc_finalize([root_inode EXCEPT !.links = (@ + 1) % 65536, !.mtime = now])

\* grow_root_inode without the call of inode_crc_finalize
grow_root_inode_stale(root_inode) == [root_inode EXCEPT !.size_bytes = @ + DIRENT_SIZE]

\* root_inode->size_bytes += sizeof(dirent64_t); inode_crc_finalize(root_inode)
grow_root_inode(root_inode) ==
    inode_crc_finalize([root_inode EXCEPT !.size_bytes = @ + DIRENT_SIZE])

\* find_free_entry that falls back to the last slot when none is free
find_free_entry_last(entries) ==
    LET free == {i \in 2..((BS \div DIRENT_SIZE) - 1) : entries[i + 1].inode_no = 0}
    IN  IF free = {} THEN (BS \div DIRENT_SIZE) - 1 ELSE Min(free)

\* find_free_entry that falls back to the first slot after ".." when none is free
find_free_entry_reuse(entries) ==
    LET free == {i \in 2..((BS \div DIRENT_SIZE) - 1) : entries[i + 1].inode_no = 0}
    IN  IF free = {} THEN 2 ELSE Min(free)

\* the scan for the first free entry from slot 2 on, -1 when there is none
find_free_entry(entries) ==
    LET free == {i \in 2..((BS \div DIRENT_SIZE) - 1) : entries[i + 1].inode_no = 0}
    IN  IF free = {} THEN -1 ELSE Min(free)

\* create_entry with the bit index of the inode stored for its number
create_entry_bit(new_inode_num, filename_only) ==
    dirent_checksum_finalize(
        [ZeroDirent EXCEPT !.inode_no = new_inode_num - 1, !.type = FILE_TYPE_REGULAR,
                           !.name = SubSeq(filename_only, 1,
                                           IF Len(filename_only) < NAME_MAX
                                           THEN Len(filename_only) ELSE NAME_MAX)])

create_entry(new_inode_num, filename_only) ==
    dirent_checksum_finalize(
        [ZeroDirent EXCEPT !.inode_no = new_inode_num, !.type = FILE_TYPE_REGULAR,
                           !.name = SubSeq(filename_only, 1,
                                           IF Len(filename_only) < NAME_MAX
                                           THEN Len(filename_only) ELSE NAME_MAX)])

\* bytes_to_copy with a whole block copied every time
bytes_to_copy_whole(file_size, blocks_needed, i) == BS

\* bytes copied into the i-th (0-based) block of the file
bytes_to_copy(file_size, blocks_needed, i) ==
    IF i = blocks_needed - 1 THEN file_size - i * BS ELSE BS

\* the copy loop with the i-th block of the file written to the i-th block of
\* the data region
write_file_content_from_zero(data_region, sb, file, blocks_needed, data_blocks) ==
    [b \in DOMAIN data_region |->
       IF b < blocks_needed
       THEN DataBlock(file.seed, b * BS, bytes_to_copy(file.size, blocks_needed, b))
       ELSE data_region[b]]

\* the copy loop: block data_blocks[i] is cleared and receives its part of
\* the source; a block that is named twice keeps the later write
write_file_content(data_region, sb, file, blocks_needed, data_blocks) ==
    [b \in DOMAIN data_region |->
       LET hits == {i \in 0..(blocks_needed - 1) : data_blocks[i + 1] - sb.data_region_start = b}
       IN  IF hits = {} THEN data_region[b]
           ELSE LET i == CHOOSE h \in hits : \A o \in hits : o <= h
                IN  DataBlock(file.seed, i * BS, bytes_to_copy(file.size, blocks_needed, i))]

\* touch_superblock with the block count taken from the regions in use
touch_superblock_shrunk(sb, now, g) ==
    superblock_crc_finalize([sb EXCEPT !.mtime_epoch = now,
                                       !.total_blocks = sb.data_region_start + 1], g)

\* sb.mtime_epoch = now; superblock_crc_finalize(&sb)
touch_superblock(sb, now, g) ==
    superblock_crc_finalize([sb EXCEPT !.mtime_epoch = now], g)

\* validate_magic with the version checked as well
validate_magic_and_version(sb) == sb.magic = MAGIC_NUMBER /\ sb.version = VERSION

\* sb.magic != MAGIC_NUMBER is the one check made on the superblock read
validate_magic(sb) == sb.magic = MAGIC_NUMBER

\* main of mkfs_adder up to the last early return: the checks in the order
\* of the code, "ok" when the run goes on to write the output.  For a source
\* of length zero read_file_content calls malloc(0); whether that returns
\* NULL or not, the run ends before any image is opened ("EmptyFile").
adder_status(src, file) ==
    IF parse_cli_args_adder(file.path) # 0 THEN "NameTooLong"
    ELSE IF file.size = 0 THEN "EmptyFile"
    ELSE IF blocks_needed_for(file.size) > DIRECT_MAX THEN "TooLarge"
    ELSE IF src.kind # "image" THEN "IoError"
    ELSE IF ~validate_magic(src.sb) THEN "BadMagic"
    ELSE IF find_free_bit(src.inode_bitmap, src.sb.inode_count) < 0 THEN "NoFreeInode"
    ELSE IF ~allocate_data_blocks(src.data_bitmap, src.sb,
                                  blocks_needed_for(file.size), <<>>).ok THEN "NoFreeData"
    ELSE LET root_data_block == src.inode_table[ROOT_INO - 1].direct[1] - src.sb.data_region_start
         IN  IF find_free_entry(BlockEntries(src.data_region[root_data_block])) < 0
             THEN "DirFull"
             ELSE "ok"

\* main of mkfs_adder when no check fails: the image it writes to the output
adder_image(src, file, now, g) ==
    LET sb == src.sb
        blocks_needed == blocks_needed_for(file.size)
        free_inode_bit == find_free_bit(src.inode_bitmap, sb.inode_count)
        new_inode_num == free_inode_bit + 1
        alloc == allocate_data_blocks(src.data_bitmap, sb, blocks_needed, <<>>)
        inode_bitmap == set_bit(src.inode_bitmap, free_inode_bit)
        table1 == [src.inode_table EXCEPT ![new_inode_num - 1] =
                     create_file_inode(file.size, now, blocks_needed, alloc.data_blocks)]
        table2 == [table1 EXCEPT ![ROOT_INO - 1] = link_root_inode(@, now)]
        root_data_block == table2[ROOT_INO - 1].direct[1] - sb.data_region_start
        entries == BlockEntries(src.data_region[root_data_block])
        free_entry_idx == find_free_entry(entries)
        region1 == [src.data_region EXCEPT ![root_data_block] =
                      DirBlock([entries EXCEPT ![free_entry_idx + 1] =
                                  create_entry(new_inode_num, extract_filename(file.path))])]
        table3 == [table2 EXCEPT ![ROOT_INO - 1] = grow_root_inode(@)]
        region2 == write_file_content(region1, sb, file, blocks_needed, alloc.data_blocks)
        sb2 == touch_superblock(sb, now, g)
    IN  [kind |-> "image", sb |-> sb2, inode_bitmap |-> inode_bitmap,
         data_bitmap |-> alloc.data_bitmap, inode_table |-> table3,
         data_region |-> region2]

\* the inode number the adder reports
adder_inode(src) == find_free_bit(src.inode_bitmap, src.sb.inode_count) + 1

(* --------------------------- the state machine ------------------------- *)
NoArgs == [size_kib |-> 0, inode_count |-> 0]

\* what the processes hold in memory between two steps; nothing where a whole
\* run is one step
NoMem == [kind |-> "none"]

VARIABLES disk, clock, varied, follow, last, mem

vars == <<disk, clock, varied, follow, last, mem>>

Init ==
    /\ disk = [p \in Paths |-> NoFile]
    /\ clock = 1
    /\ varied = 0
    /\ follow = 0
    /\ mem = NoMem
    /\ last = [op |-> "init", status |-> "ok", input |-> "a", output |-> "a",
               file |-> "filler", ino |-> 0,
               args |-> NoArgs]

\* time(NULL) moves on
Tick ==
    /\ clock < MaxClock
    /\ varied < MaxVaried
    /\ follow = 0
    /\ clock' = clock + 1
    /\ varied' = varied + 1
    /\ last' = [op |-> "tick", status |-> "ok", input |-> "a", output |-> "a",
                file |-> "filler", ino |-> 0,
               args |-> NoArgs]
    /\ UNCHANGED <<disk, follow, mem>>

\* the effect of a run of the builder that exits with the given status and,
\* when that is "ok", has written image to the path "a"
BuildRun(args, g, status, image) ==
    /\ disk["a"].kind = "nofile"
    /\ g = 0 \/ status = "ok"
    /\ disk' = IF status = "ok" THEN [disk EXCEPT !["a"] = image] ELSE disk
    /\ last' = [op |-> "build", status |-> status, input |-> "a", output |-> "a",
                file |-> "filler", ino |-> 0, args |-> args]
    /\ UNCHANGED <<clock, varied, follow, mem>>

\* mkfs_builder --image a --size-kib .. --inodes ..
Build ==
    \E args \in BuildArgs, g \in 0..MaxGarbage :
      BuildRun(args, g, builder_status(args), builder_image(args, clock, g))

\* InjectRun with the data bitmap written back when the allocation loop fails
InjectRun_leak(in, out, f, g, plain, status, image, ino) ==
    /\ \/ plain /\ (status = "ok" => (varied = 0 \/ follow < MaxFollow))
       \/ ~plain /\ status # "ok"
       \/ ~plain /\ follow = 0 /\ varied < MaxVaried
    /\ g = 0 \/ status = "ok"
    /\ disk' = IF status = "ok" THEN [disk EXCEPT ![out] = image]
               ELSE IF status = "NoFreeData"
                    THEN [disk EXCEPT ![out].data_bitmap =
                            allocate_data_blocks(disk[in].data_bitmap, disk[in].sb,
                                                 blocks_needed_for(FileTab[f].size), <<>>).data_bitmap]
                    ELSE disk
    /\ varied' = IF status = "ok" /\ ~plain THEN varied + 1 ELSE varied
    /\ follow' = IF status = "ok" /\ plain THEN follow + 1 ELSE follow
    /\ last' = [op |-> "inject", status |-> status, input |-> in, output |-> out,
                file |-> f, ino |-> IF status = "ok" THEN ino ELSE 0, args |-> NoArgs]
    /\ UNCHANGED <<clock, mem>>

\* The effect of a run of the adder that exits with the given status and,
\* when that is "ok", has written image to the path out.  A plain run adds
\* the file "filler"; the runs are any MaxVaried operations, then plain runs
\* (MaxFollow of them at most after a varied start) and runs that fail.
InjectRun(in, out, f, g, plain, status, image, ino) ==
    /\ \/ plain /\ (status = "ok" => (varied = 0 \/ follow < MaxFollow))
       \/ ~plain /\ status # "ok"
       \/ ~plain /\ follow = 0 /\ varied < MaxVaried
    /\ g = 0 \/ status = "ok"
    /\ disk' = IF status = "ok" THEN [disk EXCEPT ![out] = image] ELSE disk
    /\ varied' = IF status = "ok" /\ ~plain THEN varied + 1 ELSE varied
    /\ follow' = IF status = "ok" /\ plain THEN follow + 1 ELSE follow
    /\ last' = [op |-> "inject", status |-> status, input |-> in, output |-> out,
                file |-> f, ino |-> IF status = "ok" THEN ino ELSE 0, args |-> NoArgs]
    /\ UNCHANGED <<clock, mem>>

\* mkfs_adder --input a --output a --file f
Inject ==
    \E f \in Files, g \in 0..MaxGarbage :
      InjectRun("a", "a", f, g, f = "filler",
                adder_status(disk["a"], FileTab[f]),
                adder_image(disk["a"], FileTab[f], clock, g),
                adder_inode(disk["a"]))

Next == Tick \/ Build \/ Inject

Spec == Init /\ [][Next]_vars

(* --------------------- the builder on its own -------------------------- *)
\* mkfs_builder --image a --size-kib .. --inodes .. on the probe arguments
BuildProbe ==
    \E args \in ProbeArgs, g \in 0..MaxGarbage :
      BuildRun(args, g, builder_status(args), builder_image(args, clock, g))

BuildNext == Tick \/ BuildProbe

BuildSpec == Init /\ [][BuildNext]_vars

(* ------------------ the layout calculator on its own ------------------- *)
\* every size the builder accepts, and sizes around the limits that it
\* rejects; every inode count it accepts and the two next to the limits
LayoutSizes ==
    {k \in (MIN_SIZE_KIB - 4)..(MAX_SIZE_KIB + 4) :
        k % 4 = 0 \/ k < MIN_SIZE_KIB + 4 \/ k > MAX_SIZE_KIB - 4}

LayoutInodes == (MIN_INODES - 1)..(MAX_INODES + 1)

LayoutArgs ==
    {[size_kib |-> k, inode_count |-> n] : k \in LayoutSizes, n \in LayoutInodes}

\* main of mkfs_builder up to calculate_layout, on the arguments args
LayoutRun(args, parsed) ==
    last' = [op |-> "layout", args |-> args, parsed |-> parsed,
             rc |-> IF parsed = 0 THEN calculate_layout(args).rc ELSE -1,
             layout |-> calculate_layout(args).layout]

Layout ==
    /\ last.op = "init"
    /\ \E args \in LayoutArgs : LayoutRun(args, parse_cli_args_builder(args))
    /\ UNCHANGED <<disk, clock, varied, follow, mem>>

LayoutSpec == Init /\ [][Layout]_vars

(* ------- the injector on foreign images and with failing writes -------- *)
\* fopen of the output, then the five fwrite calls of main
WriteSteps == 5

\* the source files of these runs
IoFiles == {"b4097", "toobig"}

\* what a program other than the builder and the injector may have left in
\* an image: another magic number, another version, a stale checksum, old
\* bytes in the free data blocks, a data bitmap with every bit set
Variants == {"magic", "version", "checksum", "dirty", "nodata"}

Foreign(img, variant) ==
    CASE variant = "magic" -> [img EXCEPT !.sb.magic = MAGIC_NUMBER + 1]
      [] variant = "version" -> [img EXCEPT !.sb.version = VERSION + 1]
      [] variant = "checksum" -> [img EXCEPT !.sb.checksum = <<1, 2, 3, 4>>]
      [] variant = "dirty" ->
           [img EXCEPT !.data_region =
              [b \in DOMAIN img.data_region |->
                 IF b \in img.data_bitmap THEN img.data_region[b]
                 ELSE DataBlock(99, 0, BS)]]
      [] variant = "nodata" ->
           [img EXCEPT !.data_bitmap = 0..(img.sb.data_region_blocks - 1)]

\* the image at "a" is replaced by a foreign one, once, before the injector
\* runs
Tamper ==
    /\ disk["a"].kind = "image"
    /\ follow = 0 /\ varied = 0
    /\ \E v \in Variants : disk' = [disk EXCEPT !["a"] = Foreign(disk["a"], v)]
    /\ follow' = 1
    /\ last' = [op |-> "tamper", status |-> "ok", input |-> "a", output |-> "a",
                file |-> "filler", ino |-> 0, args |-> NoArgs]
    /\ UNCHANGED <<clock, varied, mem>>

\* A run of the adder from the path in to any path out, with the status of
\* its checks and the image it builds in memory.  fail = 0: every call
\* succeeds; fail = 1: fopen of the output fails; fail = k + 1: the k-th
\* fwrite fails, after fopen has truncated the output and k - 1 parts of the
\* image were written.
IoRun(in, f, g, status, image, ino) ==
    /\ varied < MaxIoOps
    /\ \E out \in Paths, fail \in 0..(WriteSteps + 1) :
         /\ fail = 0 \/ status = "ok"
         /\ g = 0 \/ (status = "ok" /\ fail = 0)
         /\ disk' = IF status # "ok" \/ fail = 1 THEN disk
                    ELSE IF fail = 0 THEN [disk EXCEPT ![out] = image]
                    ELSE [disk EXCEPT ![out] = PartialFile(fail - 2)]
         /\ last' = [op |-> "inject",
                     status |-> IF status = "ok" /\ fail > 0 THEN "IoError" ELSE status,
                     input |-> in, output |-> out, file |-> f,
                     ino |-> IF status = "ok" /\ fail = 0 THEN ino ELSE 0,
                     args |-> NoArgs]
    /\ varied' = varied + 1
    /\ UNCHANGED <<clock, follow, mem>>

\* mkfs_adder --input in --output out --file f
InjectIo ==
    \E in \in Paths, f \in IoFiles, g \in 0..MaxGarbage :
      IoRun(in, f, g, adder_status(disk[in], FileTab[f]),
            adder_image(disk[in], FileTab[f], clock, g), adder_inode(disk[in]))

\* time(NULL) moves on between two runs
IoTick ==
    /\ clock < MaxClock
    /\ clock' = clock + 1
    /\ last' = [op |-> "tick", status |-> "ok", input |-> "a", output |-> "a",
                file |-> "filler", ino |-> 0, args |-> NoArgs]
    /\ UNCHANGED <<disk, varied, follow, mem>>

IoNext == Build \/ Tamper \/ InjectIo \/ IoTick

IoSpec == Init /\ [][IoNext]_vars

(* ------------- the copy loop on images with used free blocks ---------- *)
\* the source files of these runs: less than a block, a block and a byte,
\* more than twelve blocks
CopyFiles == {"hello", "b4097", "toobig"}

\* the free data blocks of the image at "a" hold the bytes of deleted files
Dirty ==
    /\ disk["a"].kind = "image"
    /\ follow = 0 /\ varied = 0
    /\ disk' = [disk EXCEPT !["a"] = Foreign(disk["a"], "dirty")]
    /\ follow' = 1
    /\ last' = [op |-> "tamper", status |-> "ok", input |-> "a", output |-> "a",
                file |-> "filler", ino |-> 0, args |-> NoArgs]
    /\ UNCHANGED <<clock, varied, mem>>

\* a run of the adder from the path in to the path out, every call of the C
\* library succeeding
CopyRun(in, out, f, g, status, image, ino) ==
    /\ varied < MaxIoOps
    /\ g = 0 \/ status = "ok"
    /\ disk' = IF status = "ok" THEN [disk EXCEPT ![out] = image] ELSE disk
    /\ last' = [op |-> "inject", status |-> status, input |-> in, output |-> out,
                file |-> f, ino |-> IF status = "ok" THEN ino ELSE 0, args |-> NoArgs]
    /\ varied' = varied + 1
    /\ UNCHANGED <<clock, follow, mem>>

InjectCopy ==
    \E in \in Paths, out \in Paths, f \in CopyFiles, g \in 0..MaxGarbage :
      CopyRun(in, out, f, g, adder_status(disk[in], FileTab[f]),
              adder_image(disk[in], FileTab[f], clock, g), adder_inode(disk[in]))

CopyNext == Build \/ Dirty \/ InjectCopy

CopySpec == Init /\ [][CopyNext]_vars

(* ------------------- the finalizers on records in memory -------------- *)
\* what the checksum field of a record holds before it is finalized: zero
\* from memset, or an older checksum
OldSums == {0, 1}

OldSum(c, w) == [i \in 1..w |-> c * (i + 4)]

\* the records of the three kinds, as they are before the finalizer is called
FinRecords ==
    {[kind |-> "superblock",
      rec |-> [superblock_fields(a, calculate_layout(a).layout, t) EXCEPT !.checksum = OldSum(c, 4)]] :
        a \in {b \in BuildArgs : parse_cli_args_builder(b) = 0}, t \in 1..MaxClock, c \in OldSums}
    \cup
    {[kind |-> "inode", rec |-> [root_inode_fields(d, t) EXCEPT !.inode_crc = OldSum(c, 8)]] :
        d \in KnownStarts, t \in 1..MaxClock, c \in OldSums}
    \cup
    {[kind |-> "inode",
      rec |-> [file_inode_fields(FileTab[f].size, t, blocks_needed_for(FileTab[f].size),
                                 [i \in 1..DIRECT_MAX |-> i]) EXCEPT !.inode_crc = OldSum(c, 8)]] :
        f \in {"hello", "b4097"}, t \in 1..MaxClock, c \in OldSums}
    \cup
    {[kind |-> "dirent", rec |-> [e EXCEPT !.checksum = 9 * c]] :
        e \in {create_root_directory_entries[1], create_root_directory_entries[2],
               create_entry(2, FileTab["hello"].path)},
        c \in OldSums}

\* the finalizer of the record's kind, called on the record while the memory
\* that follows it holds MemoryAfter(after)
finalize_record(kind, rec, after) ==
    CASE kind = "superblock" -> superblock_crc_finalize(rec, after)
      [] kind = "inode" -> inode_crc_finalize(rec)
      [] kind = "dirent" -> dirent_checksum_finalize(rec)

FinLast(op) ==
    [op |-> op, status |-> "ok", input |-> "a", output |-> "a",
     file |-> "filler", ino |-> 0, args |-> NoArgs]

\* a record is set up in memory, or its fields are assigned again
Place ==
    /\ \E r \in FinRecords, after \in 0..MaxGarbage :
         /\ mem.kind \in {"none", r.kind}
         /\ IF mem.kind = "none" THEN TRUE ELSE mem.rec # r.rec
         /\ mem' = [kind |-> r.kind, rec |-> r.rec, after |-> after, runs |-> 0]
    /\ last' = FinLast("place")
    /\ UNCHANGED <<disk, clock, varied, follow>>

\* the memory that follows the record is written, the record is not
Scribble ==
    /\ mem.kind # "none"
    /\ \E after \in 0..MaxGarbage :
         /\ after # mem.after
         /\ mem' = [mem EXCEPT !.after = after, !.runs = 0]
    /\ last' = FinLast("scribble")
    /\ UNCHANGED <<disk, clock, varied, follow>>

\* the finalizer is called on the record
Finalize ==
    /\ mem.kind # "none"
    /\ mem.runs < MaxRuns
    /\ mem' = [mem EXCEPT !.rec = finalize_record(mem.kind, mem.rec, mem.after),
                          !.runs = @ + 1]
    /\ last' = FinLast("finalize")
    /\ UNCHANGED <<disk, clock, varied, follow>>

FinalizeNext == Place \/ Scribble \/ Finalize

FinalizeSpec == Init /\ [][FinalizeNext]_vars

(* ------------- two injector processes on the same image path ----------- *)
\* Each process is a run of mkfs_adder --input a --output a --file f, in two
\* steps: it reads the image, checks it and changes it in memory (up to the
\* fclose of the input), and later it opens the output and writes what it
\* holds.  Nothing in main locks the file or looks at it again between the two.
Procs == {1, 2}

RaceFiles == {"hello", "b4097", "toobig"}

Idle == [pc |-> "start", file |-> "filler", status |-> "ok", loaded |-> NoFile,
         image |-> NoFile, ino |-> 0]

RaceProcs == IF mem.kind = "race" THEN mem.procs ELSE [p \in Procs |-> Idle]

RaceLast(op, status, f, ino) ==
    [op |-> op, status |-> status, input |-> "a", output |-> "a",
     file |-> f, ino |-> ino, args |-> NoArgs]

\* process p reads the image at "a" and builds the new image in memory
RaceLoadRun(p, f, g, status, image, ino) ==
    /\ RaceProcs[p].pc = "start"
    /\ g = 0 \/ status = "ok"
    /\ mem' = [kind |-> "race",
               procs |-> [RaceProcs EXCEPT ![p] =
                            [pc |-> IF status = "ok" THEN "loaded" ELSE "done",
                             file |-> f, status |-> status, loaded |-> disk["a"],
                             image |-> IF status = "ok" THEN image ELSE NoFile,
                             ino |-> IF status = "ok" THEN ino ELSE 0]]]
    /\ last' = RaceLast("load", status, f, 0)
    /\ UNCHANGED <<disk, clock, varied, follow>>

RaceLoad ==
    \E p \in Procs, f \in RaceFiles, g \in 0..MaxGarbage :
      RaceLoadRun(p, f, g, adder_status(disk["a"], FileTab[f]),
                  adder_image(disk["a"], FileTab[f], clock, g), adder_inode(disk["a"]))

\* RaceStore with the image read again and changed at the time of the write
RaceStore_reload(p) ==
    /\ RaceProcs[p].pc = "loaded"
    /\ disk' = [disk EXCEPT !["a"] = adder_image(disk["a"], FileTab[RaceProcs[p].file], clock, 0)]
    /\ mem' = [mem EXCEPT !.procs[p].pc = "done"]
    /\ last' = RaceLast("store", "ok", RaceProcs[p].file, RaceProcs[p].ino)
    /\ UNCHANGED <<clock, varied, follow>>

\* process p opens "a" for writing and writes the image it holds
RaceStore(p) ==
    /\ RaceProcs[p].pc = "loaded"
    /\ disk' = [disk EXCEPT !["a"] = RaceProcs[p].image]
    /\ mem' = [mem EXCEPT !.procs[p].pc = "done"]
    /\ last' = RaceLast("store", "ok", RaceProcs[p].file, RaceProcs[p].ino)
    /\ UNCHANGED <<clock, varied, follow>>

RaceNext == Build \/ RaceLoad \/ \E p \in Procs : RaceStore(p)

RaceSpec == Init /\ [][RaceNext]_vars

(* ------------- the injector call by call of the C library ------------- *)
\* the five parts of an image file, in the order of the file
Parts == <<"sb", "inode_bitmap", "data_bitmap", "inode_table", "data_region">>

\* AdderSteps with the output opened as soon as the bitmaps are read
AdderSteps_early ==
    <<"check_file", "fopen_in", "sb", "inode_bitmap", "data_bitmap", "fopen_out",
      "inode_table", "data_region", "fclose_in", "update",
      "fwrite_sb", "fwrite_inode_bitmap", "fwrite_data_bitmap",
      "fwrite_inode_table", "fwrite_data_region", "fclose_out">>

\* the calls of main of mkfs_adder that touch the files, in the order of the
\* code: the checks on the source file, fopen of the input, one fread per
\* part, fclose, the changes in memory, fopen of the output, one fwrite per
\* part, fclose
AdderSteps ==
    <<"check_file", "fopen_in", "sb", "inode_bitmap", "data_bitmap",
      "inode_table", "data_region", "fclose_in", "update", "fopen_out",
      "fwrite_sb", "fwrite_inode_bitmap", "fwrite_data_bitmap",
      "fwrite_inode_table", "fwrite_data_region", "fclose_out">>

\* what main holds before its first call
Started(d) ==
    [disk |-> d, status |-> "run", image |-> NoFile,
     loaded |-> [kind |-> "image", sb |-> 0, inode_bitmap |-> 0, data_bitmap |-> 0,
                 inode_table |-> 0, data_region |-> 0]]

Ended(st, status) == [st EXCEPT !.status = status]

\* fread of one part of the file at the path in, as the file is at that time
fread_part(st, in, name) ==
    LET file == st.disk[in]
    IN  IF file.kind # "image" THEN Ended(st, "IoError")
        ELSE IF name = "sb" /\ ~validate_magic(file.sb) THEN Ended(st, "BadMagic")
        ELSE [st EXCEPT !.loaded =
                CASE name = "sb" -> [@ EXCEPT !.sb = file.sb]
                  [] name = "inode_bitmap" -> [@ EXCEPT !.inode_bitmap = file.inode_bitmap]
                  [] name = "data_bitmap" -> [@ EXCEPT !.data_bitmap = file.data_bitmap]
                  [] name = "inode_table" -> [@ EXCEPT !.inode_table = file.inode_table]
                  [] name = "data_region" -> [@ EXCEPT !.data_region = file.data_region]]

\* fwrite of part k to the file at the path out
fwrite_part(st, out, k) ==
    [st EXCEPT !.disk[out] = IF k = Len(Parts) THEN st.image ELSE PartialFile(k)]

\* one call of main, no call of the C library failing for a reason outside
\* the files
adder_step(st, s, in, out, f, now, g) ==
    IF st.status # "run" THEN st
    ELSE CASE s = "check_file" ->
                IF adder_status(NoFile, f) # "IoError" THEN Ended(st, adder_status(NoFile, f)) ELSE st
           [] s = "fopen_in" -> IF st.disk[in].kind = "nofile" THEN Ended(st, "IoError") ELSE st
           [] s \in {Parts[k] : k \in 1..Len(Parts)} -> fread_part(st, in, s)
           [] s = "fclose_in" -> st
           [] s = "update" ->
                IF adder_status(st.loaded, f) # "ok" THEN Ended(st, adder_status(st.loaded, f))
                ELSE [st EXCEPT !.image = adder_image(st.loaded, f, now, g)]
           [] s = "fopen_out" -> [st EXCEPT !.disk[out] = PartialFile(0)]
           [] s = "fwrite_sb" -> fwrite_part(st, out, 1)
           [] s = "fwrite_inode_bitmap" -> fwrite_part(st, out, 2)
           [] s = "fwrite_data_bitmap" -> fwrite_part(st, out, 3)
           [] s = "fwrite_inode_table" -> fwrite_part(st, out, 4)
           [] s = "fwrite_data_region" -> fwrite_part(st, out, 5)
           [] s = "fclose_out" -> Ended(st, "ok")

RECURSIVE adder_steps(_, _, _, _, _, _, _, _)
adder_steps(steps, i, st, in, out, f, now, g) ==
    IF i > Len(steps) THEN st
    ELSE adder_steps(steps, i + 1, adder_step(st, steps[i], in, out, f, now, g),
                     in, out, f, now, g)

\* mkfs_adder --input in --output out --file f on the files of d
adder_run(d, in, out, f, now, g) == adder_steps(AdderSteps, 1, Started(d), in, out, f, now, g)

StepFiles == {"filler", "hello", "b4097", "empty", "toobig"}

StepRun(in, out, f, g, r) ==
    /\ varied < MaxIoOps
    /\ g = 0 \/ r.status = "ok"
    /\ disk' = r.disk
    /\ last' = [op |-> "inject", status |-> r.status, input |-> in, output |-> out,
                file |-> f, ino |-> 0, args |-> NoArgs, g |-> g]
    /\ varied' = varied + 1
    /\ UNCHANGED <<clock, follow, mem>>

InjectSteps ==
    \E in \in Paths, out \in Paths, f \in StepFiles, g \in 0..MaxGarbage :
      StepRun(in, out, f, g, adder_run(disk, in, out, FileTab[f], clock, g))

StepNext == Build \/ InjectSteps

StepSpec == Init /\ [][StepNext]_vars

(* ---------------------- find_free_bit on its own ----------------------- *)
\* the bitmaps: FindWidth bits in a zero-filled block
FindBitmaps == SUBSET (0..(FindWidth - 1))

\* the values of max_bits: around the width of the bitmap, and the nine
\* largest values of a uint32_t
FindMaxBits == (0..(FindWidth + 6)) \cup {0 - k : k \in 1..9}

FindRun(bitmap, max_bits) ==
    last' = [op |-> "find", bitmap |-> bitmap, max_bits |-> max_bits,
             result |-> find_free_bit(bitmap, max_bits)]

Find ==
    /\ last.op = "init"
    /\ \E bitmap \in FindBitmaps, max_bits \in FindMaxBits : FindRun(bitmap, max_bits)
    /\ UNCHANGED <<disk, clock, varied, follow, mem>>

FindSpec == Init /\ [][Find]_vars

(* ------------------------------ properties ----------------------------- *)
\* the least number of units of the given size that hold n
CeilDiv(n, unit) == CHOOSE q \in 0..n : q * unit >= n /\ (q - 1) * unit < n

\* the arguments the specification calls valid
ValidArgs(args) ==
    /\ args.size_kib \in MIN_SIZE_KIB..MAX_SIZE_KIB
    /\ args.size_kib % 4 = 0
    /\ args.inode_count \in MIN_INODES..MAX_INODES

\* the five regions of a layout in the order of the volume, as <<start, length>>
Regions(l) ==
    <<<<l.superblock_start, 1>>, <<l.inode_bitmap_start, 1>>,
      <<l.data_bitmap_start, 1>>, <<l.inode_table_start, l.inode_table_blocks>>,
      <<l.data_region_start, l.data_region_blocks>>>>

\* non-empty regions, the first at block 0, each starting where the one
\* before ends, the last ending at the end of the volume: every block of
\* 0..total-1 lies in exactly one region
Tiles(regions, total) ==
    /\ regions[1][1] = 0
    /\ \A i \in 1..Len(regions) : regions[i][2] >= 1
    /\ \A i \in 1..(Len(regions) - 1) : regions[i + 1][1] = regions[i][1] + regions[i][2]
    /\ regions[Len(regions)][1] + regions[Len(regions)][2] = total

\* C10: for every size_kib in [180, 4096] that is a multiple of 4 and every
\* inode_count in [128, 512] argument validation and the layout calculator
\* succeed; the superblock, the two bitmaps, the inode table of
\* ceil(inode_count / 32) blocks and the data region tile the size_kib / 4
\* blocks of the volume, and the data region has at least one block.
C10_LayoutTilesVolume ==
    (last.op = "layout" /\ ValidArgs(last.args)) =>
        /\ last.parsed = 0
        /\ last.rc = 0
        /\ last.layout.total_blocks * 4 = last.args.size_kib
        /\ last.layout.inode_table_blocks = CeilDiv(last.args.inode_count, BS \div INODE_SIZE)
        /\ Tiles(Regions(last.layout), last.layout.total_blocks)
        /\ last.layout.data_region_blocks >= 1

\* the layout of the largest volume with an inode table whose last block
\* holds one inode
C10_Witness ==
    /\ last.op = "layout"
    /\ last.args = [size_kib |-> MAX_SIZE_KIB, inode_count |-> MIN_INODES + 1]
    /\ last.rc = 0
    /\ last.layout.inode_table_blocks = 5
    /\ last.layout.data_region_blocks = 1016

\* C8: for every valid (size_kib, inode_count), the superblock read back from
\* block 0 of the image the builder wrote has magic 0x4D565346, version 1,
\* block size 4096, total_blocks = size_kib / 4, the requested inode_count,
\* root inode 1, the inode bitmap at block 1 and the data bitmap at block 2
\* (one block each), the inode table at block 3 with T = ceil(inode_count / 32)
\* blocks and the data region at block 3 + T with total_blocks - 3 - T blocks;
\* and the builder does write an image for every valid pair.
C8_SuperblockReadBack ==
    (last.op = "build" /\ ValidArgs(last.args)) =>
        /\ last.status = "ok"
        /\ disk["a"].kind = "image"
        /\ LET sb == ReadSuperblock(SuperblockBlock(disk["a"].sb))
               T == CeilDiv(last.args.inode_count, 32)
           IN  /\ sb.magic = (77 * 16777216) + (86 * 65536) + (83 * 256) + 70
               /\ sb.version = 1
               /\ sb.block_size = 4096
               /\ sb.total_blocks * 4 = last.args.size_kib
               /\ sb.inode_count = last.args.inode_count
               /\ sb.root_inode = 1
               /\ sb.inode_bitmap_start = 1 /\ sb.inode_bitmap_blocks = 1
               /\ sb.data_bitmap_start = 2 /\ sb.data_bitmap_blocks = 1
               /\ sb.inode_table_start = 3 /\ sb.inode_table_blocks = T
               /\ sb.data_region_start = 3 + T
               /\ sb.data_region_blocks = sb.total_blocks - 3 - T

\* the largest volume, built with 161 inodes, read back
C8_Witness ==
    /\ last.op = "build"
    /\ last.status = "ok"
    /\ last.args = [size_kib |-> MAX_SIZE_KIB, inode_count |-> MIN_INODES + 33]
    /\ ReadSuperblock(SuperblockBlock(disk["a"].sb)).total_blocks = 1024
    /\ ReadSuperblock(SuperblockBlock(disk["a"].sb)).inode_table_blocks = 6
    /\ ReadSuperblock(SuperblockBlock(disk["a"].sb)).data_region_blocks = 1015

(* ---------------- properties of the images on the disk ---------------- *)
\* the entries of the single data block of the root directory of an image
RootEntries(img) ==
    BlockEntries(img.data_region[img.inode_table[ROOT_INO - 1].direct[1]
                                 - img.sb.data_region_start])

\* the numbers of the allocated inodes: the root inode and the inode of
\* every non-free entry of the root directory
AllocatedInodes(img) ==
    {ROOT_INO} \cup {RootEntries(img)[i].inode_no :
                       i \in {j \in 1..(BS \div DIRENT_SIZE) : RootEntries(img)[j].inode_no # 0}}

\* the allocated blocks: the block of the root directory and every non-zero
\* direct pointer of an inode whose bit is set in the inode bitmap
AllocatedBlocks(img) ==
    {img.inode_table[ROOT_INO - 1].direct[1]}
    \cup ({img.inode_table[i].direct[k] :
             i \in img.inode_bitmap \cap DOMAIN img.inode_table, k \in 1..DIRECT_MAX}
          \ {0})

\* the number of files in the root directory
NFiles(img) ==
    Cardinality({j \in 3..(BS \div DIRENT_SIZE) : RootEntries(img)[j].inode_no # 0})

\* the free bits of the two bitmaps
FreeInodes(img) == (0..(img.sb.inode_count - 1)) \ img.inode_bitmap
FreeBlocks(img) == (0..(img.sb.data_region_blocks - 1)) \ img.data_bitmap

\* C1: in every image on the disk, bit i of the inode bitmap is set exactly
\* when inode i + 1 is allocated (the root inode or the inode of a non-free
\* root directory entry), bit i of the data bitmap is set exactly when block
\* data_region_start + i is allocated (the root directory block or a
\* non-zero direct pointer of an inode whose bit is set), and no bit at or
\* beyond inode_count (data_region_blocks) is set.
C1_BitmapsMatchAllocation ==
    \A p \in Paths :
      disk[p].kind = "image" =>
        /\ disk[p].inode_bitmap = {n - 1 : n \in AllocatedInodes(disk[p])}
        /\ disk[p].data_bitmap =
             {b - disk[p].sb.data_region_start : b \in AllocatedBlocks(disk[p])}
        /\ \A i \in disk[p].inode_bitmap : i >= 0 /\ i < disk[p].sb.inode_count
        /\ \A i \in disk[p].data_bitmap : i >= 0 /\ i < disk[p].sb.data_region_blocks

\* an image with the twelve-block file and another file in it
C1_Witness ==
    /\ disk["a"].kind = "image"
    /\ last.op = "inject" /\ last.status = "ok" /\ last.file = "filler"
    /\ Cardinality(disk["a"].inode_bitmap) = 3
    /\ Cardinality(disk["a"].data_bitmap) = 14

CapacityStatus == {"NoFreeInode", "NoFreeData", "DirFull"}

ValidationStatus == {"NameTooLong", "EmptyFile", "TooLarge"}

\* C2: a run of the injector that fails with a Capacity error (no free
\* inode, not enough free data blocks, no free directory slot) leaves every
\* image on the disk, and so the destination's bitmaps, inode table and data
\* region, exactly as the last successful run left them.
C2_CapacityFailureWritesNothing ==
    [][(last'.op = "inject" /\ last'.status \in CapacityStatus) => disk' = disk]_vars

\* the allocation loop failed after it had found and marked a free block
C2_Witness ==
    /\ last.op = "inject"
    /\ last.status = "NoFreeData"
    /\ disk["a"].kind = "image"
    /\ FreeBlocks(disk["a"]) # {}
    /\ Cardinality(FreeBlocks(disk["a"])) < CeilDiv(FileTab[last.file].size, BS)

\* the part of a path after its last '/': the longest suffix without one
DisplayName(path) ==
    LET n == Len(path)
        k == CHOOSE c \in 0..n :
               /\ \A j \in (n - c + 1)..n : path[j] # 47
               /\ c = n \/ path[n - c] = 47
    IN  SubSeq(path, n - k + 1, n)

\* a source file the injector has to accept: not empty, at most 12 blocks,
\* a display name of at most 57 bytes
ValidFile(f) ==
    /\ f.size >= 1
    /\ f.size <= 12 * 4096
    /\ Len(DisplayName(f.path)) <= 57

\* C3: every run of the injector on a valid file and an image either
\* succeeds, and then the root directory holds one file more than before and
\* at most 62 files, or fails with a Capacity error: the successful
\* injections into an image are at most 62 and the first attempt that does
\* not succeed fails with a Capacity error.
C3_InjectionsBounded ==
    [][(/\ last'.op = "inject"
        /\ ValidFile(FileTab[last'.file])
        /\ disk[last'.input].kind = "image")
       => IF last'.status = "ok"
          THEN /\ disk'[last'.output].kind = "image"
               /\ NFiles(disk'[last'.output]) = NFiles(disk[last'.input]) + 1
               /\ NFiles(disk'[last'.output]) <= 62
          ELSE last'.status \in CapacityStatus]_vars

\* the smallest image after 37 successful injections has no data block left
C3_Witness ==
    /\ last.op = "inject"
    /\ last.status = "NoFreeData"
    /\ ValidFile(FileTab[last.file])
    /\ disk["a"].kind = "image"
    /\ NFiles(disk["a"]) = 37
    /\ FreeBlocks(disk["a"]) = {}

\* slots 2..63 of the root directory all hold an inode number, and a free
\* inode and enough free data blocks for the file exist
DirectoryFullOnly(img, f) ==
    /\ NFiles(img) = 62
    /\ ValidFile(f)
    /\ FreeInodes(img) # {}
    /\ Cardinality(FreeBlocks(img)) >= CeilDiv(f.size, BS)

\* C4: when slots 2..63 of the root directory are all in use and a free inode
\* and enough free data blocks exist, the injection fails with the
\* directory-full error and the images on the disk are unchanged; and no run
\* of the injector changes an entry of the root directory that was in use,
\* "." and ".." included.
C4_DirectoryFullKeepsEntries ==
    [][(last'.op = "inject" /\ disk[last'.input].kind = "image")
       => /\ DirectoryFullOnly(disk[last'.input], FileTab[last'.file])
               => (last'.status = "DirFull" /\ disk' = disk)
          /\ disk'[last'.output].kind = "image"
               => \A i \in 1..(BS \div DIRENT_SIZE) :
                    RootEntries(disk[last'.input])[i].inode_no # 0
                      => RootEntries(disk'[last'.output])[i]
                           = RootEntries(disk[last'.input])[i]]_vars

\* the 63rd injection into an image that still has a free data block
C4_Witness ==
    /\ last.op = "inject"
    /\ last.status = "DirFull"
    /\ disk["a"].kind = "image"
    /\ DirectoryFullOnly(disk["a"], FileTab[last.file])
    /\ RootEntries(disk["a"])[1].name = <<46>>
    /\ RootEntries(disk["a"])[64].inode_no = 63

\* the non-zero direct pointers of an inode come first: how many they are,
\* or -1 when a zero slot precedes a non-zero one
LeadingPointers(ino) ==
    LET n == Cardinality({k \in 1..DIRECT_MAX : ino.direct[k] # 0})
    IN  IF \A k \in 1..DIRECT_MAX : (ino.direct[k] # 0) <=> (k <= n) THEN n ELSE -1

\* C5: a successful injection of a file of s bytes, 1 <= s <= 12 * 4096,
\* allocates exactly ceil(s / 4096) data blocks: the data bitmap keeps its
\* set bits and gains that many, and the new inode has that many non-zero
\* direct pointers followed by zero slots; 4095 and 4096 bytes take one
\* block, 4097 bytes take two.
C5_BlocksAllocated ==
    [][(last'.op = "inject" /\ last'.status = "ok")
       => LET s == FileTab[last'.file].size
              old == disk[last'.input].data_bitmap
              new == disk'[last'.output].data_bitmap
              ino == disk'[last'.output].inode_table[last'.ino - 1]
              n == Cardinality(new \ old)
          IN  /\ s >= 1 /\ s <= 12 * 4096
              /\ old \subseteq new
              /\ n = CeilDiv(s, 4096)
              /\ LeadingPointers(ino) = n
              /\ s \in {4095, 4096} => n = 1
              /\ s = 4097 => n = 2]_vars

\* the file of 4097 bytes was injected into a fresh image and took two blocks
C5_Witness ==
    /\ last.op = "inject" /\ last.status = "ok"
    /\ FileTab[last.file].size = 4097
    /\ Cardinality(disk["a"].data_bitmap) = 3
    /\ LeadingPointers(disk["a"].inode_table[last.ino - 1]) = 2

\* C6: the injector rejects a source file of length zero, a display name of
\* more than 57 bytes and a source file of more than 12 * 4096 bytes, whatever
\* is on the disk (the checks come before any image is opened), and the disk
\* is unchanged; a file of 12 * 4096 bytes and a name of 57 bytes are not
\* rejected for their size or name.
C6_InvalidSourceRejected ==
    [][last'.op = "inject"
       => LET f == FileTab[last'.file]
              bad == \/ f.size = 0
                     \/ Len(DisplayName(f.path)) > 57
                     \/ f.size > 12 * 4096
          IN  /\ bad => (last'.status \in ValidationStatus /\ disk' = disk)
              /\ ~bad => last'.status \notin ValidationStatus
              /\ (f.size = (12 * 4096) + 1 /\ Len(DisplayName(f.path)) <= 57)
                   => last'.status = "TooLarge"
              /\ Len(DisplayName(f.path)) = 58 => last'.status = "NameTooLong"
              /\ (f.size = 0 /\ Len(DisplayName(f.path)) <= 57)
                   => last'.status = "EmptyFile"]_vars

\* the file of 12 * 4096 + 1 bytes was rejected on an image that holds files
C6_Witness ==
    /\ last.op = "inject"
    /\ last.status = "TooLarge"
    /\ FileTab[last.file].size = (12 * 4096) + 1
    /\ disk["a"].kind = "image"
    /\ NFiles(disk["a"]) >= 1

\* the CRC32 of the first 120 bytes of an inode record
InodeCrcOfBytes(ino) ==
    LET z == [ino EXCEPT !.inode_crc = Zeros(8)]
    IN  IF z \in KnownInodes THEN InodeChecksums[z]
        ELSE crc32(SubSeq(InodeBytes(ino), 1, 120), 120)

\* C9: in every image on the disk, every inode whose bit is set in the inode
\* bitmap has the mode of a regular file (0100000) or of a directory
\* (0040000), and its last 8 bytes hold the CRC32 of its first 120 bytes in
\* the low 32 bits and zero in the high 32 bits; the root inode included,
\* after every injection.
C9_UsedInodesValid ==
    \A p \in Paths :
      disk[p].kind = "image" =>
        \A i \in disk[p].inode_bitmap :
          LET ino == disk[p].inode_table[i]
          IN  /\ ino.mode \in {32768, 16384}
              /\ SubSeq(ino.inode_crc, 1, 4) = InodeCrcOfBytes(ino)
              /\ SubSeq(ino.inode_crc, 5, 8) = <<0, 0, 0, 0>>

\* an image whose root inode was changed by two injections at a later time
C9_Witness ==
    /\ disk["a"].kind = "image"
    /\ last.op = "inject" /\ last.status = "ok"
    /\ disk["a"].inode_table[0].links = 4
    /\ disk["a"].inode_table[0].size_bytes = 4 * DIRENT_SIZE
    /\ disk["a"].inode_table[0].mtime > disk["a"].inode_table[0].ctime
    /\ Cardinality(disk["a"].inode_bitmap) = 3

\* block 0 of an image as it is stored, with the checksum field taken as zero
Block0ForChecksum(img) == SuperblockBlock([img.sb EXCEPT !.checksum = ZeroWord])

\* C7: in every image on the disk the checksum stored in the superblock is
\* the CRC32 of the first 4092 bytes of block 0 as stored (the 116-byte
\* record, then zero padding) with the checksum field taken as zero.
C7_StoredChecksumMatches ==
    \A p \in Paths :
      disk[p].kind = "image" =>
        disk[p].sb.checksum = crc32(Block0ForChecksum(disk[p]), BS - 4)

\* the root directory of an image with k files: "." and ".." in slots 0 and
\* 1, the files in slots 2..k+1 with the inode numbers 2..k+1 and the type
\* of a file, the other slots free; each file's inode is a regular file with
\* one link and ceil(size / 4096) direct pointers
DirectoryInOrder(img, k) ==
    LET e == RootEntries(img)
    IN  /\ e[1].inode_no = 1 /\ e[1].name = <<46>>
        /\ e[2].inode_no = 1 /\ e[2].name = <<46, 46>>
        /\ NFiles(img) = k
        /\ \A j \in 3..(k + 2) :
             LET ino == img.inode_table[j - 2]
             IN  /\ e[j].inode_no = j - 1
                 /\ e[j].type = 1
                 /\ ino.mode = 32768
                 /\ ino.links = 1
                 /\ LeadingPointers(ino) = CeilDiv(ino.size_bytes, 4096)

\* C11: a successful injection into an image with k - 1 files leaves an image
\* whose root directory has exactly k + 2 non-free entries, "." and ".." in
\* slots 0 and 1 and the i-th file in slot i + 1 with inode number i + 1 and
\* the type of a file; the new entry has the display name of the source and
\* the new inode its length, the mode of a regular file, one link and
\* ceil(size / 4096) direct pointers (for "hello.txt" of 10 bytes on a fresh
\* image: three entries, size 10, one direct pointer).
C11_DirectoryAfterInjections ==
    [][(last'.op = "inject" /\ last'.status = "ok")
       => LET f == FileTab[last'.file]
              k == NFiles(disk[last'.input]) + 1
              img == disk'[last'.output]
          IN  /\ DirectoryInOrder(img, k)
              /\ last'.ino = k + 1
              /\ RootEntries(img)[k + 2].name = DisplayName(f.path)
              /\ img.inode_table[k].size_bytes = f.size
              /\ (last'.file = "hello" /\ k = 1)
                   => /\ img.inode_table[1].size_bytes = 10
                      /\ LeadingPointers(img.inode_table[1]) = 1
                      /\ RootEntries(img)[3].name
                           = <<104, 101, 108, 108, 111, 46, 116, 120, 116>>]_vars

\* "hello.txt" was injected into a fresh image
C11_Witness ==
    /\ last.op = "inject" /\ last.status = "ok" /\ last.file = "hello"
    /\ NFiles(disk["a"]) = 1
    /\ RootEntries(disk["a"])[3].inode_no = 2
    /\ disk["a"].inode_table[1].size_bytes = 10

\* the 64 bytes of the entries "." and ".." as the builder writes them:
\* inode number 1, type 2, the name, zeros, the XOR of the 63 bytes before
DotBytes == <<1, 0, 0, 0, 2, 46>> \o [i \in 1..57 |-> 0] \o <<45>>
DotDotBytes == <<1, 0, 0, 0, 2, 46, 46>> \o [i \in 1..56 |-> 0] \o <<3>>

\* C12: in every image on the disk bit 0 of the inode bitmap is set, inode 1
\* has the mode of a directory and its first direct pointer is
\* data_region_start, and slots 0 and 1 of that block hold "." and ".."
\* with inode number 1 and the type of a directory, byte for byte as the
\* builder writes them.
C12_RootAlwaysThere ==
    \A p \in Paths :
      disk[p].kind = "image" =>
        /\ 0 \in disk[p].inode_bitmap
        /\ disk[p].inode_table[0].mode = 16384
        /\ disk[p].inode_table[0].direct[1] = disk[p].sb.data_region_start
        /\ LET block == disk[p].data_region[0]
           IN  /\ [i \in 1..64 |-> ByteAt(block, i - 1)] = DotBytes
               /\ [i \in 1..64 |-> ByteAt(block, 63 + i)] = DotDotBytes

\* an image with a full root directory
C12_Witness ==
    /\ disk["a"].kind = "image"
    /\ NFiles(disk["a"]) = 62
    /\ ByteAt(disk["a"].data_region[0], 5) = 46
    /\ ByteAt(disk["a"].data_region[0], 64 + 6) = 46

\* the number of non-free entries of the root directory
NonFreeEntries(img) ==
    Cardinality({j \in 1..(BS \div DIRENT_SIZE) : RootEntries(img)[j].inode_no # 0})

ImageBlocks(img) ==
    3 + (Cardinality(DOMAIN img.inode_table) * INODE_SIZE) \div BS
      + Cardinality(DOMAIN img.data_region)

SameGeometry(s, d) ==
    /\ d.magic = s.magic /\ d.version = s.version /\ d.block_size = s.block_size
    /\ d.total_blocks = s.total_blocks /\ d.inode_count = s.inode_count
    /\ d.inode_bitmap_start = s.inode_bitmap_start
    /\ d.inode_bitmap_blocks = s.inode_bitmap_blocks
    /\ d.data_bitmap_start = s.data_bitmap_start
    /\ d.data_bitmap_blocks = s.data_bitmap_blocks
    /\ d.inode_table_start = s.inode_table_start
    /\ d.inode_table_blocks = s.inode_table_blocks
    /\ d.data_region_start = s.data_region_start
    /\ d.data_region_blocks = s.data_region_blocks
    /\ d.root_inode = s.root_inode /\ d.flags = s.flags

\* C14: a successful injection changes only the modify-timestamp and the
\* checksum of the superblock: every other field of the destination
\* superblock equals that of the source superblock, the timestamp is the time
\* of the run, and the destination image has as many blocks as the source.
C14_SuperblockFrame ==
    [][(last'.op = "inject" /\ last'.status = "ok") =>
         /\ SameGeometry(disk[last'.input].sb, disk'[last'.output].sb)
         /\ disk'[last'.output].sb.mtime_epoch = clock
         /\ ImageBlocks(disk'[last'.output]) = ImageBlocks(disk[last'.input])]_vars

\* an injection from "a" to "b" of an image of another version, at a later
\* time than the build: timestamp and checksum differ, the version is kept
C14_Witness ==
    /\ last.op = "inject" /\ last.status = "ok"
    /\ last.input = "a" /\ last.output = "b"
    /\ disk["a"].kind = "image"
    /\ disk["a"].sb.version = VERSION + 1
    /\ disk["b"].sb.version = VERSION + 1
    /\ disk["b"].sb.mtime_epoch # disk["a"].sb.mtime_epoch
    /\ disk["b"].sb.checksum # disk["a"].sb.checksum
\* C15: the injector never modifies the source image in place: after any
\* injector run that fails (validation, capacity, integrity, or an I/O
\* failure at any write step) the file at the source path still holds what it
\* held before the run, also when the destination path is the source path.
C15_SourceKeptOnFailure ==
    [][(last'.op = "inject" /\ last'.status # "ok") =>
         disk'[last'.input] = disk[last'.input]]_vars
\* byte q of the concatenation of the blocks that the direct pointers of
\* ino name, in slot order
FileContentByte(img, ino, q) ==
    ByteAt(img.data_region[ino.direct[(q \div BS) + 1] - img.sb.data_region_start], q % BS)

\* C16: after a successful injection of a source of s bytes, the blocks named
\* by the new inode's direct pointers, concatenated in slot order, hold the
\* source bytes in their first s positions and zero in every remaining
\* position up to ceil(s / 4096) * 4096, whatever those blocks held in the
\* source image.
C16_ContentThenZeros ==
    [][(last'.op = "inject" /\ last'.status = "ok") =>
         LET f == FileTab[last'.file]
             img == disk'[last'.output]
             ino == img.inode_table[last'.ino - 1]
         IN  \A q \in 0..(CeilDiv(f.size, 4096) * 4096 - 1) :
               FileContentByte(img, ino, q) = IF q < f.size THEN FileByte(f.seed, q) ELSE 0]_vars

\* an injection of 4097 bytes from "a" to "b" where the two blocks it takes
\* held other, non-zero bytes in "a"
C16_Witness ==
    /\ last.op = "inject" /\ last.status = "ok" /\ follow = 1
    /\ last.input = "a" /\ last.output = "b" /\ last.file = "b4097"
    /\ disk["a"].kind = "image"
    /\ LET ino == disk["b"].inode_table[last.ino - 1]
       IN  /\ LeadingPointers(ino) = 2
           /\ \A i \in 1..2 :
                /\ ByteAt(disk["a"].data_region[ino.direct[i] - disk["a"].sb.data_region_start], BS - 1) # 0
                /\ ByteAt(disk["b"].data_region[ino.direct[i] - disk["b"].sb.data_region_start], BS - 1)
                     = IF i = 1 THEN FileByte(FileTab["b4097"].seed, BS - 1) ELSE 0
\* C17: each of the three finalizers is idempotent: applied a second time in
\* a row to a record, with no change in between, it leaves the record as the
\* first application left it, the stored checksum included; and what the
\* first application stores does not depend on what the checksum field held.
C17_FinalizersIdempotent ==
    [][(mem.kind # "none" /\ mem.runs >= 1 /\ mem'.kind = mem.kind /\ mem'.runs = mem.runs + 1) =>
         /\ mem'.rec = mem.rec
         /\ mem'.rec = finalize_record(mem.kind,
                                       IF mem.kind = "superblock"
                                       THEN [mem.rec EXCEPT !.checksum = ZeroWord]
                                       ELSE IF mem.kind = "inode"
                                            THEN [mem.rec EXCEPT !.inode_crc = Zeros(8)]
                                            ELSE [mem.rec EXCEPT !.checksum = 0],
                                       mem.after)]_vars

\* a superblock finalized twice while the memory after it is not zero
C17_Witness ==
    /\ mem.kind = "superblock" /\ mem.runs = 2 /\ mem.after > 0
    /\ last.op = "finalize"
    /\ mem.rec.checksum # ZeroWord
\* an image without its superblock (whose checksum depends on memory that is
\* not part of the image)
Body(img) ==
    [inode_bitmap |-> img.inode_bitmap, data_bitmap |-> img.data_bitmap,
     inode_table |-> img.inode_table, data_region |-> img.data_region]

\* the image after the injection of fa and then of fb, one run after the other
Serial(base, fa, fb) ==
    Body(adder_image(adder_image(base, FileTab[fa], clock, 0), FileTab[fb], clock, 0))

BothDone ==
    /\ mem.kind = "race"
    /\ \A p \in Procs : mem.procs[p].pc = "done" /\ mem.procs[p].status = "ok"

\* neither process read what the other wrote
Interleaved == mem.procs[1].loaded = mem.procs[2].loaded

\* C18: the injector has no concurrency control across processes.  When two
\* injector processes on the same image path have both exited successfully:
\* if neither read the image after the other wrote it, the final image is the
\* one that the last writer built from the common source, it holds one new
\* file and not two, both processes were given the same inode number, and
\* the image is the result of neither serial order; otherwise the image is
\* the result of a serial order.
C18_LostUpdate ==
    BothDone =>
      LET p1 == mem.procs[1]
          p2 == mem.procs[2]
          final == Body(disk["a"])
      IN  IF Interleaved
          THEN /\ final \in {Body(p1.image), Body(p2.image)}
               /\ NFiles(disk["a"]) = NFiles(p1.loaded) + 1
               /\ p1.ino = p2.ino
               /\ final \notin {Serial(p1.loaded, p1.file, p2.file),
                                Serial(p1.loaded, p2.file, p1.file)}
          ELSE IF NFiles(p1.loaded) < NFiles(p2.loaded)
               THEN final = Serial(p1.loaded, p1.file, p2.file)
               ELSE final = Serial(p2.loaded, p2.file, p1.file)

\* both processes exited successfully with different files, and the image
\* holds the second writer's file only
C18_Witness ==
    /\ BothDone /\ Interleaved
    /\ mem.procs[1].file = "hello" /\ mem.procs[2].file = "b4097"
    /\ last.op = "store" /\ last.file = "hello"
    /\ NFiles(disk["a"]) = 1
    /\ RootEntries(disk["a"])[3].name = DisplayName(FileTab["hello"].path)
    /\ Body(disk["a"]) # Serial(mem.procs[1].loaded, "hello", "b4097")
    /\ Body(disk["a"]) # Serial(mem.procs[1].loaded, "b4097", "hello")
\* the records and the block that stand for zero-filled memory are zero in
\* every byte
ZeroRecordsAreZeroBytes ==
    /\ \A i \in 1..128 : InodeBytes(ZeroInode)[i] = 0
    /\ \A i \in 1..64 : DirentBytes(ZeroDirent)[i] = 0
    /\ \A q \in 0..4095 : ByteAt(ZeroBlock, q) = 0

\* C19: a freshly built image has exactly bit 0 set in the inode bitmap and
\* exactly bit 0 set in the data bitmap; inode 1 is a directory with link
\* count 2, size 128, direct[0] = data_region_start and the other direct slots
\* zero; the first block of the data region holds "." and "..", both with
\* inode number 1, and zero after them; every other inode slot and every
\* other block of the data region is zero.
C19_FreshImage ==
    disk["a"].kind = "image" =>
      LET img == disk["a"]
          root == img.inode_table[0]
          block == img.data_region[0]
      IN  /\ img.inode_bitmap = {0} /\ img.data_bitmap = {0}
          /\ root.mode = 16384 /\ root.links = 2 /\ root.size_bytes = 128
          /\ root.direct = <<img.sb.data_region_start, 0, 0, 0, 0, 0, 0, 0, 0, 0, 0, 0>>
          /\ [i \in 1..64 |-> ByteAt(block, i - 1)] = DotBytes
          /\ [i \in 1..64 |-> ByteAt(block, 63 + i)] = DotDotBytes
          /\ \A i \in 3..64 : BlockEntries(block)[i] = ZeroDirent
          /\ \A k \in 1..(img.sb.inode_table_blocks * 32 - 1) : img.inode_table[k] = ZeroInode
          /\ DOMAIN img.inode_table = 0..(img.sb.inode_table_blocks * 32 - 1)
          /\ \A b \in 1..(img.sb.data_region_blocks - 1) : img.data_region[b] = ZeroBlock
          /\ DOMAIN img.data_region = 0..(img.sb.data_region_blocks - 1)
          /\ ZeroRecordsAreZeroBytes

\* a build of the largest volume with the most inodes
C19_Witness ==
    /\ last.op = "build" /\ last.status = "ok"
    /\ last.args = [size_kib |-> 4096, inode_count |-> 512]
    /\ disk["a"].kind = "image"
    /\ disk["a"].sb.inode_table_blocks = 16
    /\ disk["a"].sb.data_region_blocks = 1005
\* a free inode, enough free data blocks and a free directory slot for f
RoomFor(img, f) ==
    /\ FreeInodes(img) # {}
    /\ Cardinality(FreeBlocks(img)) >= CeilDiv(f.size, 4096)
    /\ NFiles(img) < 62

\* C20: a run of the injector on a source image whose magic number is not
\* 0x4D565346 fails and leaves every file on the disk as it was, the
\* destination included, and no inode is given out; on a valid file it fails
\* with the magic number error.  The magic number is the only property of the
\* source image that is checked: a run on a valid file and a source image
\* with the right magic number (whatever its version, checksum or free
\* blocks hold) fails only for lack of room or when a write fails.
C20_MagicOnly ==
    [][(last'.op = "inject" /\ disk[last'.input].kind = "image") =>
         LET src == disk[last'.input]
             f == FileTab[last'.file]
         IN  IF src.sb.magic # 1297503046
             THEN /\ last'.status # "ok"
                  /\ disk' = disk
                  /\ last'.ino = 0
                  /\ ValidFile(f) => last'.status = "BadMagic"
             ELSE ValidFile(f) =>
                    /\ last'.status \in {"ok", "IoError"} \cup CapacityStatus
                    /\ RoomFor(src, f) => last'.status \in {"ok", "IoError"}]_vars

\* a run from "a" to "a" refused for the magic number, with the image still
\* there; "b" holds nothing
C20_Witness ==
    /\ last.op = "inject" /\ last.status = "BadMagic"
    /\ last.input = "a" /\ last.output = "a"
    /\ disk["a"].kind = "image"
    /\ disk["a"].sb.magic # 1297503046
    /\ disk["b"].kind = "nofile"
StepNo(s) == CHOOSE i \in 1..Len(AdderSteps) : AdderSteps[i] = s

OtherPath(p) == CHOOSE q \in Paths : q # p

\* C21: the injector reads the five parts of the source image and closes it
\* before it opens the destination, so a successful injection whose
\* destination path is the source path writes exactly the image that the
\* same injection writes to another path, and the other way round; and that
\* image is the one built from the source image as it was before the run.
C21_InPlaceSameImage ==
    [][(last'.op = "inject" /\ last'.status = "ok") =>
         LET f == FileTab[last'.file]
             other == OtherPath(last'.output)
             twin == adder_run(disk, last'.input, other, f, clock, last'.g)
         IN  /\ \A k \in 1..5 : StepNo(Parts[k]) < StepNo("fclose_in")
             /\ StepNo("fclose_in") < StepNo("fopen_out")
             /\ twin.status = "ok"
             /\ twin.disk[other] = disk'[last'.output]
             /\ disk'[last'.output] = adder_image(disk[last'.input], f, clock, last'.g)]_vars

\* a successful injection of two blocks from "a" to "a"
C21_Witness ==
    /\ last.op = "inject" /\ last.status = "ok"
    /\ last.input = "a" /\ last.output = "a" /\ last.file = "b4097"
    /\ disk["a"].kind = "image" /\ NFiles(disk["a"]) = 1
    /\ disk["b"].kind = "nofile"
\* the direct slots in use: <<table index, slot>> for every used inode (a set
\* bit of the inode bitmap) and every slot that is not zero
UsedSlots(img) ==
    {x \in img.inode_bitmap \X (1..12) : img.inode_table[x[1]].direct[x[2]] # 0}

Pointer(img, x) == img.inode_table[x[1]].direct[x[2]]

\* C22: in every image on the disk no data block is assigned twice: the
\* non-zero direct pointers of the used inodes are pairwise distinct, within
\* one inode and across inodes, each lies in [data_region_start,
\* total_blocks), and no pointer of a regular file is the root directory's
\* block.
C22_NoBlockTwice ==
    \A p \in Paths :
      disk[p].kind = "image" =>
        LET img == disk[p]
            slots == UsedSlots(img)
            ptrs == {Pointer(img, x) : x \in slots}
        IN  /\ Cardinality(ptrs) = Cardinality(slots)
            /\ \A b \in ptrs : b >= img.sb.data_region_start /\ b < img.sb.total_blocks
            /\ \A x \in slots :
                 x[1] # 0 => Pointer(img, x) # img.inode_table[0].direct[1]

\* three files, one of twelve blocks and two of one block
C22_Witness ==
    /\ disk["a"].kind = "image"
    /\ NFiles(disk["a"]) = 3
    /\ Cardinality(UsedSlots(disk["a"])) = 15
    /\ \E k \in disk["a"].inode_bitmap : LeadingPointers(disk["a"].inode_table[k]) = 12
\* the clear bits below max_bits that can be the smallest one: the bits of
\* the block from FindWidth on are clear
ClearBelow(bitmap, max_bits) ==
    {i \in 0..FindWidth : i \notin bitmap /\ U32Less(i, max_bits)}

\* C23: for every bitmap and every max_bits, find_free_bit returns the
\* smallest index below max_bits whose bit is clear, and -1 exactly when
\* every bit below max_bits is set; a clear bit at an index from max_bits on
\* is never returned.
C23_FirstFit ==
    last.op = "find" =>
      IF ClearBelow(last.bitmap, last.max_bits) = {}
      THEN last.result = -1
      ELSE last.result = Min(ClearBelow(last.bitmap, last.max_bits))

\* C23 for max_bits up to 2^32 - 8
C23_FirstFitBelowWrap ==
    (last.op = "find" /\ U32Less(last.max_bits, 0 - 7)) =>
      IF ClearBelow(last.bitmap, last.max_bits) = {}
      THEN last.result = -1
      ELSE last.result = Min(ClearBelow(last.bitmap, last.max_bits))
\* the files of an image: the table indices of the used inodes but the root
FileInodes(img) == img.inode_bitmap \ {0}

\* the entries of the files in the root directory e1 are in e2 as they are in
\* e1, and they name every file in files
EntriesKept(e1, e2, files) ==
    /\ \A j \in 3..64 : e1[j].inode_no # 0 => e2[j] = e1[j]
    /\ files \subseteq {e1[j].inode_no - 1 : j \in 3..64}

\* what belongs to the file with table index k is in img2 as it is in img1:
\* the bit of the inode, the inode record, the bits and the contents of its
\* blocks
FileKept(img1, img2, k) ==
    LET ino == img1.inode_table[k]
        start == img1.sb.data_region_start
    IN  /\ k \in img2.inode_bitmap
        /\ img2.inode_table[k] = ino
        /\ \A i \in 1..12 :
             ino.direct[i] # 0 =>
               /\ (ino.direct[i] - start) \in img1.data_bitmap
               /\ (ino.direct[i] - start) \in img2.data_bitmap
               /\ img2.data_region[ino.direct[i] - start] = img1.data_region[ino.direct[i] - start]

\* C24: allocation is monotone and a later run of the injector does not
\* disturb an earlier file: every run, successful or not, leaves each file of
\* the image with its inode bit and its data bits set and with its inode
\* record, its root directory entry and the contents of its blocks as they
\* were, and clears no bit of either bitmap.
C24_EarlierFilesKept ==
    [][(last'.op = "inject" /\ disk[last'.input].kind = "image") =>
         LET img1 == disk[last'.input]
             img2 == disk'[last'.output]
         IN  /\ img2.kind = "image"
             /\ img1.inode_bitmap \subseteq img2.inode_bitmap
             /\ img1.data_bitmap \subseteq img2.data_bitmap
             /\ EntriesKept(RootEntries(img1), RootEntries(img2), FileInodes(img1))
             /\ \A k \in FileInodes(img1) : FileKept(img1, img2, k)]_vars

\* a file of one block injected after a file of twelve blocks
C24_Witness ==
    /\ last.op = "inject" /\ last.status = "ok" /\ last.file = "filler"
    /\ disk["a"].kind = "image" /\ NFiles(disk["a"]) = 2
    /\ LeadingPointers(disk["a"].inode_table[1]) = 12
    /\ LeadingPointers(disk["a"].inode_table[2]) = 1
\* the last block of the file or directory ino
LastPointer(ino) == ino.direct[LeadingPointers(ino)]

\* the direct pointers of ino are first, first + 1, ... and zero after them
Consecutive(ino, first) ==
    \A i \in 1..12 :
      ino.direct[i] = IF i <= LeadingPointers(ino) THEN first + i - 1 ELSE 0

\* C25: in every image on the disk both bitmaps are prefixes without holes:
\* the set bits of the inode bitmap are the indices 0..k and those of the
\* data bitmap the indices 0..m; every file's direct pointers are consecutive
\* ascending block numbers that start right after the last block of the
\* inode before it (the root directory's block for the first file), and the
\* last file ends at bit m.
C25_BitmapsArePrefixes ==
    \A p \in Paths :
      disk[p].kind = "image" =>
        LET img == disk[p]
            k == Cardinality(img.inode_bitmap) - 1
            m == Cardinality(img.data_bitmap) - 1
        IN  /\ img.inode_bitmap = 0..k
            /\ img.data_bitmap = 0..m
            /\ \A n \in 1..k :
                 /\ LeadingPointers(img.inode_table[n]) >= 1
                 /\ Consecutive(img.inode_table[n], LastPointer(img.inode_table[n - 1]) + 1)
            /\ LastPointer(img.inode_table[k]) = img.sb.data_region_start + m

\* a file of twelve blocks and two files of one block after it
C25_Witness ==
    /\ disk["a"].kind = "image"
    /\ disk["a"].inode_bitmap = 0..3
    /\ disk["a"].data_bitmap = 0..14
    /\ LastPointer(disk["a"].inode_table[1]) = disk["a"].sb.data_region_start + 12
    /\ disk["a"].inode_table[3].direct[1] = disk["a"].sb.data_region_start + 14
\* C26: on the images the builder and the injector produce, the injector
\* never fails with "No free inodes available": every image has inode_count
\* of at least MIN_INODES and at most 63 bits of its inode bitmap set (the
\* root and the 62 files the directory holds), so the search for a free inode
\* succeeds, and a run on such an image with a file that passes the
\* validation ends in success, in the no-free-data-block error or in the
\* directory-full error.
C26_NoFreeInodeUnreachable ==
    /\ \A p \in Paths :
         disk[p].kind = "image" =>
           /\ disk[p].sb.inode_count >= MIN_INODES
           /\ Cardinality(disk[p].inode_bitmap) <= (BS \div DIRENT_SIZE) - 1
           /\ find_free_bit(disk[p].inode_bitmap, disk[p].sb.inode_count) >= 0
    /\ (last.op = "inject" /\ disk[last.input].kind = "image") =>
         /\ last.status # "NoFreeInode"
         /\ ValidFile(FileTab[last.file]) => last.status \in {"ok", "NoFreeData", "DirFull"}

\* an injection stopped by the full directory with 63 inodes in use, the 64th free
C26_Witness ==
    /\ last.op = "inject" /\ last.status = "DirFull"
    /\ disk["a"].kind = "image"
    /\ Cardinality(disk["a"].inode_bitmap) = 63
    /\ find_free_bit(disk["a"].inode_bitmap, disk["a"].sb.inode_count) = 63
====
